---- MODULE Spec2Model ----
(***************************************************************************)
(* A model of the judging core of jd4: the sandbox pool protocol, the      *)
(* default and custom-judge case runners (jd4/case.py), the compiler build *)
(* (jd4/compile.py) and the per-submission orchestrator (jd4/daemon.py).   *)
(*                                                                         *)
(* asyncio is cooperative: the code between two awaits of a coroutine is   *)
(* one atomic step, so every action below runs a coroutine from one await  *)
(* to the next.                                                            *)
(***************************************************************************)
EXTENDS Integers, Sequences, FiniteSets, TLC

VARIABLES
    free,     \* the pool's queue of idle sandbox handles
    waitq,    \* tasks blocked in get_sandbox, oldest first
    tkind,    \* task -> "none" | "compile" | "interp" | "default" | "custom"
    tpc,      \* task -> the await its coroutine is suspended at
    holds,    \* task -> the handles bound to its local sandbox variables
    gets,     \* task -> number of handles get_sandbox has handed to it
    puts,     \* task -> number of handles it has passed to put_sandbox
    tres,     \* task -> the case result it returned
    spc,      \* submission -> position of JudgeHandler.do_record
    lang,     \* submission -> the language named by the request
    events,   \* submission -> the messages sent through next()/end()
    ncases,   \* submission -> len(cases) inside JudgeHandler.judge
    idx,      \* submission -> number of judge tasks already awaited
    total,    \* submission -> running totals of JudgeHandler.judge
    fin,      \* the arguments of a function applied on its own
    fout,     \* what it returned
    fpc,      \* "ready" before the application, "done" after
    run,      \* one run of a program in a sandbox, step by step
    pipe,     \* one FIFO with its writer and its bounded reader
    pkg,      \* one package: its directory and the references to it
    bundle,   \* submission -> what is wrong with its problem bundle
    dirs      \* the sandboxes' directories and the consumers that fill them

pool_vars == <<free, waitq>>
task_vars == <<tkind, tpc, holds, gets, puts, tres>>
sub_vars  == <<spc, lang, events, ncases, idx, total>>
part_vars == <<run, pipe, pkg, bundle, dirs>>
fun_vars  == <<fin, fout, fpc, run, pipe, pkg, bundle, dirs>>
vars      == <<free, waitq, tkind, tpc, holds, gets, puts, tres,
               spc, lang, events, ncases, idx, total, fin, fout, fpc,
               run, pipe, pkg, bundle, dirs>>

----------------------------------------------------------------------------
(* Bounds of the model *)

NumSubs  == 2
MaxCases == 2
PoolSize == 2
\* the case tasks created in one run of the model, over all submissions
MaxJudged == 3

Subs  == 1..NumSubs
Boxes == 1..PoolSize
\* <<s, 0>> is the build of submission s, <<s, i>> its i-th case task
Tasks == Subs \X (0..MaxCases)
\* the tasks the runner harness (SpecRunners) drives
RunnerTasks == {1} \X (0..MaxCases)

----------------------------------------------------------------------------
(* jd4.status: the verdict codes *)

STATUS_ACCEPTED              == 1
STATUS_WRONG_ANSWER          == 2
STATUS_TIME_LIMIT_EXCEEDED   == 3
STATUS_MEMORY_LIMIT_EXCEEDED == 4
STATUS_RUNTIME_ERROR         == 6
STATUS_COMPILE_ERROR         == 7
STATUS_SYSTEM_ERROR          == 8
STATUS_JUDGING               == 20
STATUS_COMPILING             == 21

VerdictSet == {STATUS_ACCEPTED, STATUS_WRONG_ANSWER, STATUS_TIME_LIMIT_EXCEEDED,
               STATUS_MEMORY_LIMIT_EXCEEDED, STATUS_RUNTIME_ERROR,
               STATUS_COMPILE_ERROR, STATUS_SYSTEM_ERROR}

----------------------------------------------------------------------------
(* Inputs: the descriptor's cases and what a run can measure *)

\* every case of the descriptor: time "1.5ms", memory "4k", a positive score
CaseTimeLimit(i)   == 1500000
CaseMemoryLimit(i) == 4096
CaseScore(i)       == 5 * i + 5

CpuMeasured  == {700000, 1500000, 2000000}   \* cpu-time the group reports
MemoryPeaks  == {1536, 4096, 8192}           \* memory the program asks for
ExitStatuses == {0, 1, -9}                   \* sandbox.call's result
JudgeCpu     == {700000, 1000000000}         \* cpu-time of a judge program
JudgePeaks   == {1536, 268435456}            \* memory peak of a judge program
JudgeStdouts == {<<"1", "7">>, <<"2", "0">>, <<>>, <<"1">>,
                 <<"1", "7", "3">>, <<"x", "7">>}

Max(a, b) == IF a >= b THEN a ELSE b
Min(a, b) == IF a <= b THEN a ELSE b

Result(st, sc, t, m) ==
    [status |-> st, score |-> sc, time_usage_ns |-> t, memory_usage_bytes |-> m]
NoResult == Result(0, 0, 0, 0)

----------------------------------------------------------------------------
(* jd4.pool: get_sandbox / put_sandbox *)

\* a variant of the pool that serves any waiter once n handles are idle
PoolReadyAnyWaiter(t, n) == /\ \E k \in 1..Len(waitq) : waitq[k] = t
                            /\ Len(free) >= n

\* get_sandbox(n) finds the caller at the head of the waiters and n handles
\* idle; the caller is served only then, and with all n at once
PoolReady(t, n) == /\ waitq # <<>>
                   /\ Head(waitq) = t
                   /\ Len(free) >= n

\* the n handles get_sandbox(n) returns
PoolTake(n) == SubSeq(free, 1, n)

\* the pool's queue after n handles were handed out
PoolRest(n) == SubSeq(free, n + 1, Len(free))

\* a waiter that is cancelled leaves the queue of waiters
Dequeue(t) == SelectSeq(waitq, LAMBDA w : w # t)

\* A new task runs to its first await before any other task resumes. For a
\* default case (case.py 48) and a compiler build (compile.py 185) that is
\* get_sandbox(1); a custom-judge case (case.py 169) and an interpreter build
\* (compile.py 155) first wait for the executor.
FirstAwait(k) == IF k \in {"default", "compile"} THEN "get" ELSE "start"

\* the tasks among <<s, 1>> .. <<s, n>> that join the waiters when created
NewWaiters(s, n, kinds) ==
    SelectSeq([i \in 1..n |-> <<s, i>>],
              LAMBDA t : FirstAwait(kinds[t[2]]) = "get")

\* `await get_sandbox(n)` is entered: the caller joins the waiters
Request(t, pc) ==
    /\ waitq' = Append(waitq, t)
    /\ tpc' = [tpc EXCEPT ![t] = pc]
    /\ UNCHANGED <<free, tkind, holds, gets, puts, tres>>

\* `await get_sandbox(n)` returns n handles to task t, which goes on to pc
Acquire(t, n, pc) ==
    /\ PoolReady(t, n)
    /\ free' = PoolRest(n)
    /\ waitq' = Tail(waitq)
    /\ holds' = [holds EXCEPT ![t] = PoolTake(n)]
    /\ gets' = [gets EXCEPT ![t] = @ + n]
    /\ tpc' = [tpc EXCEPT ![t] = pc]
    /\ UNCHANGED <<tkind, puts, tres>>

\* put_sandbox(*boxes) by task t, which ends at pc with result res
Release(t, boxes, pc, res) ==
    /\ free' = free \o boxes
    /\ puts' = [puts EXCEPT ![t] = @ + Len(boxes)]
    /\ holds' = [holds EXCEPT ![t] = <<>>]
    /\ tpc' = [tpc EXCEPT ![t] = pc]
    /\ tres' = [tres EXCEPT ![t] = res]
    /\ UNCHANGED <<waitq, tkind, gets>>

----------------------------------------------------------------------------
(* jd4.cgroup: wait_cgroup *)

\* the usage pair the controller returns: cpu-time capped at the cpu limit,
\* the cpu limit itself when the wall-clock timer fired first, and the memory
\* high-watermark of a group that is never let above memory_bytes
wait_cgroup(cpu, wall_fired, cpu_ns, mem, memory_bytes) ==
    <<IF wall_fired THEN cpu_ns ELSE Min(cpu, cpu_ns), Min(mem, memory_bytes)>>

----------------------------------------------------------------------------
(* jd4/case.py: CaseBase.judge with DefaultCase *)

\* a variant of the verdict that lets a run use exactly its memory limit
DefaultVerdictStrict(memory_usage_bytes, time_usage_ns, execute_status, correct, i) ==
    IF memory_usage_bytes > CaseMemoryLimit(i)
    THEN Result(STATUS_MEMORY_LIMIT_EXCEEDED, 0, time_usage_ns, memory_usage_bytes)
    ELSE IF time_usage_ns >= CaseTimeLimit(i)
    THEN Result(STATUS_TIME_LIMIT_EXCEEDED, 0, time_usage_ns, memory_usage_bytes)
    ELSE IF execute_status # 0
    THEN Result(STATUS_RUNTIME_ERROR, 0, time_usage_ns, memory_usage_bytes)
    ELSE IF ~correct
    THEN Result(STATUS_WRONG_ANSWER, 0, time_usage_ns, memory_usage_bytes)
    ELSE Result(STATUS_ACCEPTED, CaseScore(i), time_usage_ns, memory_usage_bytes)

\* lines 83-97: the verdict and score of a run that raised nothing
DefaultVerdict(memory_usage_bytes, time_usage_ns, execute_status, correct, i) ==
    IF memory_usage_bytes >= CaseMemoryLimit(i)
    THEN Result(STATUS_MEMORY_LIMIT_EXCEEDED, 0, time_usage_ns, memory_usage_bytes)
    ELSE IF time_usage_ns >= CaseTimeLimit(i)
    THEN Result(STATUS_TIME_LIMIT_EXCEEDED, 0, time_usage_ns, memory_usage_bytes)
    ELSE IF execute_status # 0
    THEN Result(STATUS_RUNTIME_ERROR, 0, time_usage_ns, memory_usage_bytes)
    ELSE IF ~correct
    THEN Result(STATUS_WRONG_ANSWER, 0, time_usage_ns, memory_usage_bytes)
    ELSE Result(STATUS_ACCEPTED, CaseScore(i), time_usage_ns, memory_usage_bytes)

\* a variant of the run whose controller is given twice the time limit
DefaultUsageLooseCap(cpu, wall_fired, mem, i) ==
    wait_cgroup(cpu, wall_fired, 2 * CaseTimeLimit(i), mem, CaseMemoryLimit(i))

\* a variant of the run whose wall-clock kill reports the measured cpu-time
DefaultUsageMeasured(cpu, wall_fired, mem, i) ==
    wait_cgroup(cpu, FALSE, CaseTimeLimit(i), mem, CaseMemoryLimit(i))

\* lines 72-82: the usage pair of a run under the limits of the case (the
\* time limit is passed as cpu limit and as wall-clock limit)
DefaultUsage(cpu, wall_fired, mem, i) ==
    wait_cgroup(cpu, wall_fired, CaseTimeLimit(i), mem, CaseMemoryLimit(i))

\* lines 102-111: what the except branch leaves in the result variables
DefaultExcept == Result(STATUS_SYSTEM_ERROR, 0, 0, 0)

\* a variant of the finally block that puts the sandbox back twice
DefaultPutTwice(t) == holds[t] \o holds[t]

\* lines 112-113: the handles the finally block passes to put_sandbox
DefaultPut(t) == holds[t]

\* lines 112-117: the finally block, then do_answer outside the try. When
\* open_output raises there the exception leaves judge and the task fails.
DefaultLeave(t, res, answer_ok) ==
    IF answer_ok
    THEN Release(t, DefaultPut(t), "returned", res)
    ELSE Release(t, DefaultPut(t), "raised", NoResult)

\* line 48, resumed: sandbox, = await get_sandbox(1)
DefaultAcquire(t) ==
    /\ tkind[t] = "default" /\ tpc[t] = "get"
    /\ Acquire(t, 1, "install")
    /\ UNCHANGED <<sub_vars, fun_vars>>

\* lines 51-60: package.install resolves and the FIFOs and the socket are
\* made; either raises into the except branch
DefaultInstall(t) ==
    /\ tkind[t] = "default" /\ tpc[t] = "install"
    /\ \/ /\ tpc' = [tpc EXCEPT ![t] = "exec"]
          /\ UNCHANGED <<free, waitq, tkind, holds, gets, puts, tres>>
       \/ \E answer_ok \in BOOLEAN : DefaultLeave(t, DefaultExcept, answer_ok)
    /\ UNCHANGED <<sub_vars, fun_vars>>

\* lines 61-82: what the joined tasks can hand to the verdict, or raise.
\* Each outcome is <<result, whether do_answer (line 116) succeeds>>; a
\* missing output member makes the comparison and do_answer both raise.
DefaultOutcomes[i \in 0..MaxCases + 1] ==
    {<<DefaultVerdict(DefaultUsage(cpu, wall_fired, mem, i)[2],
                      DefaultUsage(cpu, wall_fired, mem, i)[1],
                      execute_status, correct, i), TRUE>> :
         cpu \in CpuMeasured, wall_fired \in BOOLEAN, mem \in MemoryPeaks,
         execute_status \in ExitStatuses, correct \in BOOLEAN}
    \cup {<<DefaultExcept, answer_ok>> : answer_ok \in BOOLEAN}

\* lines 61-117: the execution task, the pipes and the controller join, the
\* output is compared, the verdict is taken and judge returns
DefaultFinish(t) ==
    /\ tkind[t] = "default" /\ tpc[t] = "exec"
    /\ \E o \in DefaultOutcomes[t[2]] : DefaultLeave(t, o[1], o[2])
    /\ UNCHANGED <<sub_vars, fun_vars>>

\* the task is cancelled while suspended inside judge. Waiting for the pool
\* it holds nothing. Inside the try, CancelledError passes the except branch
\* (it is no Exception since Python 3.8) and the finally block runs; on an
\* older interpreter (legacy) line 102 catches it like any other error.
DefaultCancel(t) ==
    /\ tkind[t] = "default"
    /\ \/ /\ tpc[t] = "get"
          /\ waitq' = Dequeue(t)
          /\ tpc' = [tpc EXCEPT ![t] = "cancelled"]
          /\ UNCHANGED <<free, tkind, holds, gets, puts, tres>>
       \/ /\ tpc[t] \in {"install", "exec"}
          /\ \/ Release(t, DefaultPut(t), "cancelled", NoResult)
             \/ \E answer_ok \in BOOLEAN :
                    DefaultLeave(t, DefaultExcept, answer_ok)
    /\ UNCHANGED <<sub_vars, fun_vars>>

----------------------------------------------------------------------------
(* jd4/compile.py: _compiler_build and _interpreter_build *)

\* a variant of the build that keeps its sandbox
CompilePutNone(t) == SubSeq(holds[t], 1, 0)

\* lines 209-210: the handles the finally block passes to put_sandbox
CompilePut(t) == holds[t]

\* line 185, resumed: sandbox, = await get_sandbox(1)
CompileAcquire(t) ==
    /\ tkind[t] = "compile" /\ tpc[t] = "get"
    /\ Acquire(t, 1, "prepare")
    /\ UNCHANGED <<sub_vars, fun_vars>>

\* lines 187-204: compiler.prepare resolves, the FIFO and the socket are made
\* and the build task is created; an exception leaves through the finally
CompilePrepare(t) ==
    /\ tkind[t] = "compile" /\ tpc[t] = "prepare"
    /\ \/ /\ tpc' = [tpc EXCEPT ![t] = "build"]
          /\ UNCHANGED <<free, waitq, tkind, holds, gets, puts, tres>>
       \/ Release(t, CompilePut(t), "raised", NoResult)
    /\ UNCHANGED <<sub_vars, fun_vars>>

\* lines 245-246: the limits the language registry binds to a compiler
CompileTimeLimit   == 3000000
CompileMemoryLimit == 8192
CompileCpu   == {700000, 3000000, 4000000}   \* cpu-time the compiler used
CompilePeaks == {1536, 8192, 16384}          \* memory the compiler asks for

\* lines 125-126: Compiler.build keeps a package exactly when the status of
\* the compiler is zero
BuildKeepsPackage(status, time_usage_ns, memory_usage_bytes) == status = 0

\* lines 120-126 and 195-208: what _compiler_build returns, as the status of
\* the compiler with the usage pair of the controller (limits of 198-201).
\* A compiler the wall-clock timer killed ends with a signal status.
CompileOutcomes ==
    {Result(IF wall_fired THEN -9 ELSE status, 0,
            wait_cgroup(cpu, wall_fired, CompileTimeLimit, mem,
                        CompileMemoryLimit)[1],
            wait_cgroup(cpu, wall_fired, CompileTimeLimit, mem,
                        CompileMemoryLimit)[2]) :
         cpu \in CompileCpu, wall_fired \in BOOLEAN, mem \in CompilePeaks,
         status \in ExitStatuses}

\* lines 120-140 and 205-210: Compiler.build returns (None, status) on a
\* non-zero status and (Package, 0) otherwise; the finally block runs
CompileFinish(t) ==
    /\ tkind[t] = "compile" /\ tpc[t] = "build"
    /\ \/ Release(t, CompilePut(t), "raised", NoResult)
       \/ \E o \in CompileOutcomes :
             Release(t, CompilePut(t),
                     IF BuildKeepsPackage(o.status, o.time_usage_ns,
                                          o.memory_usage_bytes)
                     THEN "built_ok" ELSE "built_none", o)
    /\ UNCHANGED <<sub_vars, fun_vars>>

\* the build is cancelled while suspended: the finally block still runs
CompileCancel(t) ==
    /\ tkind[t] = "compile"
    /\ \/ /\ tpc[t] = "get"
          /\ waitq' = Dequeue(t)
          /\ tpc' = [tpc EXCEPT ![t] = "cancelled"]
          /\ UNCHANGED <<free, tkind, holds, gets, puts, tres>>
       \/ /\ tpc[t] \in {"prepare", "build"}
          /\ Release(t, CompilePut(t), "cancelled", NoResult)
    /\ UNCHANGED <<sub_vars, fun_vars>>

\* lines 149-174 and 213-214: the interpreter build uses no sandbox
InterpBuild(t) ==
    /\ tkind[t] = "interp" /\ tpc[t] = "start"
    /\ \E raises \in BOOLEAN :
          tpc' = [tpc EXCEPT ![t] = IF raises THEN "raised" ELSE "built_ok"]
    /\ UNCHANGED <<free, waitq, tkind, holds, gets, puts, tres>>
    /\ UNCHANGED <<sub_vars, fun_vars>>

----------------------------------------------------------------------------
(* jd4/case.py: CustomJudgeCase.judge *)

DEFAULT_TIME_NS      == 1000000000
DEFAULT_MEMORY_BYTES == 268435456

\* int(token): the tokens that are decimal integers, and their values
IsIntToken(tok) == tok \in {"0", "1", "2", "3", "7"}
IntToken(tok) == CASE tok = "0" -> 0 [] tok = "1" -> 1 [] tok = "2" -> 2
                   [] tok = "3" -> 3 [] tok = "7" -> 7 [] OTHER -> 0

\* line 257 succeeds: exactly two tokens, both integers. Anything else raises
\* ValueError, which `except SystemError` on line 258 does not catch.
JudgeOutputParses(tokens) ==
    /\ Len(tokens) = 2
    /\ \A k \in 1..Len(tokens) : IsIntToken(tokens[k])

\* a variant of the verdict that looks at the user program's limits first
CustomVerdictUserFirst(judge_execute_status, judge_memory, judge_time, user_memory, user_time, user_execute_status, tokens, i) ==
    IF user_memory >= CaseMemoryLimit(i)
    THEN Result(STATUS_MEMORY_LIMIT_EXCEEDED, 0, user_time, user_memory)
    ELSE IF user_time >= CaseTimeLimit(i)
    THEN Result(STATUS_TIME_LIMIT_EXCEEDED, 0, user_time, user_memory)
    ELSE IF \/ judge_execute_status # 0
            \/ judge_memory >= DEFAULT_MEMORY_BYTES
            \/ judge_time >= DEFAULT_TIME_NS
    THEN Result(STATUS_SYSTEM_ERROR, 0, user_time, user_memory)
    ELSE IF user_execute_status # 0
    THEN Result(STATUS_RUNTIME_ERROR, 0, user_time, user_memory)
    ELSE Result(IntToken(tokens[1]), IntToken(tokens[2]), user_time, user_memory)

\* lines 241-261: the verdict of a custom-judge run whose judge output parses
CustomVerdict(judge_execute_status, judge_memory, judge_time, user_memory, user_time, user_execute_status, tokens, i) ==
    IF \/ judge_execute_status # 0
       \/ judge_memory >= DEFAULT_MEMORY_BYTES
       \/ judge_time >= DEFAULT_TIME_NS
    THEN Result(STATUS_SYSTEM_ERROR, 0, user_time, user_memory)
    ELSE IF user_memory >= CaseMemoryLimit(i)
    THEN Result(STATUS_MEMORY_LIMIT_EXCEEDED, 0, user_time, user_memory)
    ELSE IF user_time >= CaseTimeLimit(i)
    THEN Result(STATUS_TIME_LIMIT_EXCEEDED, 0, user_time, user_memory)
    ELSE IF user_execute_status # 0
    THEN Result(STATUS_RUNTIME_ERROR, 0, user_time, user_memory)
    ELSE Result(IntToken(tokens[1]), IntToken(tokens[2]), user_time, user_memory)

\* lines 241-257: whether the verdict reaches the parse of the judge's stdout
CustomReadsJudgeOutput(judge_execute_status, judge_memory, judge_time, user_memory, user_time, user_execute_status, i) ==
    /\ judge_execute_status = 0
    /\ judge_memory < DEFAULT_MEMORY_BYTES
    /\ judge_time < DEFAULT_TIME_NS
    /\ user_memory < CaseMemoryLimit(i)
    /\ user_time < CaseTimeLimit(i)
    /\ user_execute_status = 0

\* a variant of the finally block that puts back the user sandbox only
CustomPutUserOnly(t) == SubSeq(holds[t], 1, 1)

\* lines 262-263: the handles the finally block passes to put_sandbox
CustomPut(t) == holds[t]

\* lines 167-169: the judge source is read and build(judge_lang, source) is
\* called with config left at its default None. An unknown language raises
\* SystemError (compile.py 220); an interpreter raises at config.get
\* (compile.py 150); a compiler goes on to get_sandbox (compile.py 185).
CustomBegin(t) ==
    /\ tkind[t] = "custom" /\ tpc[t] = "start"
    /\ \/ /\ tpc' = [tpc EXCEPT ![t] = "raised"]
          /\ UNCHANGED <<free, waitq, tkind, holds, gets, puts, tres>>
       \/ Request(t, "jb_get")
    /\ UNCHANGED <<sub_vars, fun_vars>>

\* compile.py 185 inside the judge's build
CustomJudgeBuildAcquire(t) ==
    /\ tkind[t] = "custom" /\ tpc[t] = "jb_get"
    /\ Acquire(t, 1, "jb_prepare")
    /\ UNCHANGED <<sub_vars, fun_vars>>

\* compile.py 92-106 inside the judge's build: Compiler.prepare resets the
\* sandbox, writes the source and evaluates `'compile_time_files' in config`
\* with config None, which raises TypeError; the finally block of
\* _compiler_build returns the sandbox and the error leaves judge (line 167)
CustomJudgeBuildPrepare(t) ==
    /\ tkind[t] = "custom" /\ tpc[t] = "jb_prepare"
    /\ Release(t, CompilePut(t), "raised", NoResult)
    /\ UNCHANGED <<sub_vars, fun_vars>>

\* lines 170-172 driven with the outcome of a judge build: without a package
\* judge returns its five-tuple, with one it asks the pool for two sandboxes
CustomJudgeBuilt(t) ==
    /\ tkind[t] = "custom" /\ tpc[t] = "start"
    /\ \/ /\ tpc' = [tpc EXCEPT ![t] = "returned5"]
          /\ tres' = [tres EXCEPT ![t] = Result(STATUS_SYSTEM_ERROR, 0, 0, 0)]
          /\ UNCHANGED <<free, waitq, tkind, holds, gets, puts>>
       \/ Request(t, "get2")
    /\ UNCHANGED <<sub_vars, fun_vars>>

\* a variant of get_sandbox(2) that takes the handles one at a time and
\* queues again for the second one
CustomAcquireOneByOne(t) ==
    /\ tkind[t] = "custom" /\ tpc[t] = "get2"
    /\ PoolReady(t, 1)
    /\ free' = PoolRest(1)
    /\ holds' = [holds EXCEPT ![t] = @ \o PoolTake(1)]
    /\ gets' = [gets EXCEPT ![t] = @ + 1]
    /\ IF Len(holds[t]) = 1
       THEN waitq' = Tail(waitq) /\ tpc' = [tpc EXCEPT ![t] = "prep2"]
       ELSE waitq' = Append(Tail(waitq), t) /\ UNCHANGED tpc
    /\ UNCHANGED <<tkind, puts, tres, sub_vars, fun_vars>>

\* line 172: user_sandbox, judge_sandbox = await get_sandbox(2)
CustomAcquire(t) ==
    /\ tkind[t] = "custom" /\ tpc[t] = "get2"
    /\ Acquire(t, 2, "prep2")
    /\ UNCHANGED <<sub_vars, fun_vars>>

\* lines 174-234: both sandboxes are prepared, the FIFOs, the link and the
\* sockets are made and the tasks are created
CustomPrepare(t) ==
    /\ tkind[t] = "custom" /\ tpc[t] = "prep2"
    /\ \/ /\ tpc' = [tpc EXCEPT ![t] = "exec2"]
          /\ UNCHANGED <<free, waitq, tkind, holds, gets, puts, tres>>
       \/ Release(t, CustomPut(t), "raised", NoResult)
    /\ UNCHANGED <<sub_vars, fun_vars>>

\* a variant of the run whose user program is given twice the memory limit
CustomUserUsageLooseCap(cpu, wall_fired, mem, i) ==
    wait_cgroup(cpu, wall_fired, CaseTimeLimit(i), mem, 2 * CaseMemoryLimit(i))

\* lines 223-228: the usage pair of the user program under the case's limits
CustomUserUsage(cpu, wall_fired, mem, i) ==
    wait_cgroup(cpu, wall_fired, CaseTimeLimit(i), mem, CaseMemoryLimit(i))

\* lines 229-234: the usage pair of the judge program under the fixed limits
CustomJudgeUsage(jcpu, jmem) ==
    wait_cgroup(jcpu, FALSE, DEFAULT_TIME_NS, jmem, DEFAULT_MEMORY_BYTES)

\* lines 235-261: what judge ends with once both runs have joined, as
\* <<"returned5", five-tuple>> or <<"raised", nothing>>
CustomOutcomes[i \in 0..MaxCases + 1] ==
    LET Outcome(cpu, wall_fired, mem, user_status, jcpu, jmem, judge_status,
                tokens) ==
            LET user == CustomUserUsage(cpu, wall_fired, mem, i)
                judge == CustomJudgeUsage(jcpu, jmem)
            IN  IF /\ CustomReadsJudgeOutput(judge_status, judge[2], judge[1],
                                             user[2], user[1], user_status, i)
                   /\ ~JudgeOutputParses(tokens)
                THEN <<"raised", NoResult>>
                ELSE <<"returned5",
                       CustomVerdict(judge_status, judge[2], judge[1],
                                     user[2], user[1], user_status, tokens, i)>>
    IN  {Outcome(cpu, wall_fired, mem, user_status, jcpu, jmem, judge_status,
                 tokens) :
             cpu \in CpuMeasured, wall_fired \in BOOLEAN, mem \in MemoryPeaks,
             user_status \in ExitStatuses, jcpu \in JudgeCpu,
             jmem \in JudgePeaks, judge_status \in {0, 1},
             tokens \in JudgeStdouts}
        \cup {<<"raised", NoResult>>}

\* lines 235-263: both runs join, the verdict is taken, judge returns its
\* five-tuple or raises, and the finally block runs
CustomFinish(t) ==
    /\ tkind[t] = "custom" /\ tpc[t] = "exec2"
    /\ \E o \in CustomOutcomes[t[2]] : Release(t, CustomPut(t), o[1], o[2])
    /\ UNCHANGED <<sub_vars, fun_vars>>

\* the task is cancelled while suspended inside judge
CustomCancel(t) ==
    /\ tkind[t] = "custom"
    /\ \/ /\ tpc[t] \in {"jb_get", "get2"}
          /\ waitq' = Dequeue(t)
          /\ tpc' = [tpc EXCEPT ![t] = "cancelled"]
          /\ UNCHANGED <<free, tkind, holds, gets, puts, tres>>
       \/ /\ tpc[t] = "jb_prepare"
          /\ Release(t, CompilePut(t), "cancelled", NoResult)
       \/ /\ tpc[t] \in {"prep2", "exec2"}
          /\ Release(t, CustomPut(t), "cancelled", NoResult)
    /\ UNCHANGED <<sub_vars, fun_vars>>

----------------------------------------------------------------------------
(* jd4/daemon.py: JudgeHandler *)

Event(key, kind, st, sc, ms, kb, index, progress) ==
    [key |-> key, kind |-> kind, status |-> st, score |-> sc, time_ms |-> ms,
     memory_kb |-> kb, index |-> index, progress |-> progress]

\* line 117: self.next(status=STATUS_COMPILING)
EvCompiling == Event("next", "status", STATUS_COMPILING, 0, 0, 0, 0, -1)
\* line 120: self.next(compiler_text=message)
EvCompilerText == Event("next", "compiler_text", 0, 0, 0, 0, 0, -1)
\* line 131: self.next(status=STATUS_JUDGING, progress=0)
EvJudging == Event("next", "status", STATUS_JUDGING, 0, 0, 0, 0, 0)
\* line 82: self.next(judge_text=repr(e))
EvJudgeText == Event("next", "judge_text", 0, 0, 0, 0, 0, -1)
\* lines 77 and 83: self.end(status=..., score=0, time_ms=0, memory_kb=0)
EvEndError(st) == Event("end", "end", st, 0, 0, 0, 0, -1)

\* lines 152-161: the next event of the case awaited at position index
\* (0-based, from enumerate) out of n
EvCase(index, res, n) ==
    Event("next", "case", res.status, res.score,
          res.time_usage_ns \div 1000000, res.memory_usage_bytes \div 1024,
          index + 1, ((index + 1) * 100) \div n)

\* a variant of the totals that starts from status 0 instead of ACCEPTED
InitialTotalWaiting == Result(0, 0, 0, 0)

\* lines 132-135: the totals before the first case
InitialTotal == Result(STATUS_ACCEPTED, 0, 0, 0)

\* a variant of the totals that keeps the status of the last case
AccumulateLast(tot, res) ==
    Result(res.status,
           tot.score + res.score,
           tot.time_usage_ns + res.time_usage_ns,
           Max(tot.memory_usage_bytes, res.memory_usage_bytes))

\* lines 162-165: the totals after one more case
Accumulate(tot, res) ==
    Result(Max(tot.status, res.status),
           tot.score + res.score,
           tot.time_usage_ns + res.time_usage_ns,
           Max(tot.memory_usage_bytes, res.memory_usage_bytes))

\* lines 168-171: the end event of a judged submission
EvEnd(tot) ==
    Event("end", "end", tot.status, tot.score,
          tot.time_usage_ns \div 1000000, tot.memory_usage_bytes \div 1024,
          0, -1)

\* a variant of the loop that awaits the tasks from the last to the first
AwaitedTaskReversed(s) == <<s, ncases[s] - idx[s]>>

\* lines 139-141: the task the loop awaits next, in the order of judge_tasks
AwaitedTask(s) == <<s, idx[s] + 1>>

\* lines 80-83: any exception but CompileError and ClientError
SystemErrorExit(s) ==
    /\ events' = [events EXCEPT ![s] =
                      @ \o <<EvJudgeText, EvEndError(STATUS_SYSTEM_ERROR)>>]
    /\ spc' = [spc EXCEPT ![s] = "system_error"]

\* a variant of the build step that announces JUDGING before the end event
CompileErrorExitJudging(s) ==
    /\ events' = [events EXCEPT ![s] =
            @ \o <<EvCompilerText, EvJudging, EvEndError(STATUS_COMPILE_ERROR)>>]
    /\ spc' = [spc EXCEPT ![s] = "compile_error"]

\* lines 120-123 and 76-77: the compiler message is sent, CompileError is
\* raised for a build without a package and do_record sends the end event
CompileErrorExit(s) ==
    /\ events' = [events EXCEPT ![s] =
            @ \o <<EvCompilerText, EvEndError(STATUS_COMPILE_ERROR)>>]
    /\ spc' = [spc EXCEPT ![s] = "compile_error"]

\* the languages a request can name: one the registry binds to a compiler,
\* one it binds to an interpreter, one it does not know
Langs == {"compiled", "interpreted", "unknown"}

\* a variant of the registry that claims to know every language
has_lang_any(l) == TRUE

\* compile.py 224-225: whether the registry knows the language
has_lang(l) == l \in {"compiled", "interpreted"}

\* compile.py 217-221: what build() runs for the language; for a language
\* the registry does not know it raises SystemError before any await
BuildKind(l) == IF l = "compiled" THEN "compile"
                ELSE IF l = "interpreted" THEN "interp" ELSE "nolang"

\* lines 45-69: the request is unpacked, the code is fetched when it is an
\* archive, and prepare() starts to fetch the problem data. Lines 45-54 pop
\* the fields of the request before the try block is entered: a request that
\* lacks one raises KeyError out of do_record and nothing is sent.
DoRecord(s) ==
    /\ spc[s] = "receive"
    /\ \/ /\ spc' = [spc EXCEPT ![s] = "rejected"]
          /\ UNCHANGED <<lang, events>>
       \/ /\ \E l \in Langs : lang' = [lang EXCEPT ![s] = l]
          /\ \/ spc' = [spc EXCEPT ![s] = "prepare"] /\ UNCHANGED events
             \/ spc' = [spc EXCEPT ![s] = "client_error"] /\ UNCHANGED events
             \/ SystemErrorExit(s)
    /\ UNCHANGED <<ncases, idx, total>>
    /\ UNCHANGED pool_vars /\ UNCHANGED task_vars /\ UNCHANGED fun_vars

\* lines 92-119: cache_open resolves, the language is looked up (an unknown
\* one raises SystemError on line 97), the descriptor is read, and build()
\* sends COMPILING and starts the build
Prepare(s) ==
    /\ spc[s] = "prepare"
    /\ \/ /\ spc' = [spc EXCEPT ![s] = "client_error"]
          /\ UNCHANGED <<events, tkind, tpc, waitq>>
       \/ /\ SystemErrorExit(s)
          /\ UNCHANGED <<tkind, tpc, waitq>>
       \/ /\ has_lang(lang[s])
          /\ LET k == BuildKind(lang[s]) IN
                /\ tkind' = [tkind EXCEPT ![<<s, 0>>] = k]
                /\ tpc' = [tpc EXCEPT ![<<s, 0>>] =
                               IF k = "nolang" THEN "raised" ELSE FirstAwait(k)]
                /\ waitq' = IF k # "nolang" /\ FirstAwait(k) = "get"
                            THEN Append(waitq, <<s, 0>>) ELSE waitq
          /\ events' = [events EXCEPT ![s] = Append(@, EvCompiling)]
          /\ spc' = [spc EXCEPT ![s] = "compiling"]
    /\ UNCHANGED <<lang, ncases, idx, total>>
    /\ UNCHANGED <<free, holds, gets, puts, tres>> /\ UNCHANGED fun_vars

\* lines 128-138: the kinds of the n cases the descriptor yields
CaseKinds(n) == [1..n -> {"default", "custom"}]

\* the case tasks created so far
Judged == Cardinality({t \in Tasks : t[2] > 0 /\ tkind[t] # "none"})

\* lines 118-138 (and 168-171 without cases): the shielded build resolves
\* and its usage pair is dropped (`package, message, _, _`);
\* the compiler message is sent; without a package CompileError is raised;
\* with one, judge() lists the cases, sends JUDGING and creates every task
BuildDone(s) ==
    /\ spc[s] = "compiling"
    /\ \/ /\ tpc[<<s, 0>>] = "raised"
          /\ SystemErrorExit(s)
          /\ UNCHANGED <<tkind, tpc, waitq, ncases, idx, total>>
       \/ /\ tpc[<<s, 0>>] = "built_none"
          /\ CompileErrorExit(s)
          /\ UNCHANGED <<tkind, tpc, waitq, ncases, idx, total>>
       \/ /\ tpc[<<s, 0>>] = "built_ok"
          /\ events' = [events EXCEPT ![s] =
                  @ \o <<EvCompilerText, EvJudgeText,
                         EvEndError(STATUS_SYSTEM_ERROR)>>]
          /\ spc' = [spc EXCEPT ![s] = "system_error"]
          /\ UNCHANGED <<tkind, tpc, waitq, ncases, idx, total>>
       \/ /\ tpc[<<s, 0>>] = "built_ok"
          /\ \E n \in 0..MaxCases : \E kinds \in CaseKinds(n) :
                /\ Judged + n <= MaxJudged
                /\ ncases' = [ncases EXCEPT ![s] = n]
                /\ tkind' = [t \in Tasks |->
                                IF t[1] = s /\ t[2] \in 1..n
                                THEN kinds[t[2]] ELSE tkind[t]]
                /\ tpc' = [t \in Tasks |->
                              IF t[1] = s /\ t[2] \in 1..n
                              THEN FirstAwait(kinds[t[2]]) ELSE tpc[t]]
                /\ waitq' = waitq \o NewWaiters(s, n, kinds)
                /\ idx' = [idx EXCEPT ![s] = 0]
                /\ total' = [total EXCEPT ![s] = InitialTotal]
                /\ events' = [events EXCEPT ![s] =
                        @ \o <<EvCompilerText, EvJudging>>
                          \o (IF n = 0 THEN <<EvEnd(InitialTotal)>> ELSE <<>>)]
                /\ spc' = [spc EXCEPT ![s] = IF n = 0 THEN "done" ELSE "judging"]
    /\ tres' = [tres EXCEPT ![<<s, 0>>] = NoResult]
    /\ UNCHANGED lang
    /\ UNCHANGED <<free, holds, gets, puts>> /\ UNCHANGED fun_vars

\* lines 139-171: the awaited judge task resolves. Its eight-tuple becomes a
\* case event and joins the totals, and after the last one the end event is
\* sent; a task that raised, or returned the five-tuple of a custom-judge
\* case (the unpacking on line 141 raises), ends in lines 80-83.
AwaitCase(s) ==
    /\ spc[s] = "judging"
    /\ LET t == AwaitedTask(s) IN
       \/ /\ tpc[t] = "returned"
          /\ LET tot == Accumulate(total[s], tres[t])
                 last == idx[s] + 1 = ncases[s]
             IN  /\ total' = [total EXCEPT ![s] = tot]
                 /\ idx' = [idx EXCEPT ![s] = @ + 1]
                 /\ events' = [events EXCEPT ![s] =
                         @ \o <<EvCase(idx[s], tres[t], ncases[s])>>
                           \o (IF last THEN <<EvEnd(tot)>> ELSE <<>>)]
                 /\ spc' = [spc EXCEPT ![s] = IF last THEN "done" ELSE "judging"]
       \/ /\ tpc[t] \in {"raised", "returned5"}
          /\ SystemErrorExit(s)
          /\ UNCHANGED <<idx, total>>
    /\ UNCHANGED <<lang, ncases>>
    /\ UNCHANGED pool_vars /\ UNCHANGED task_vars /\ UNCHANGED fun_vars

\* a variant of the handler whose cancellation reaches every task of the
\* submission that is still running
HandlerCancelPropagates(s) ==
    /\ spc[s] \in {"prepare", "compiling", "judging"}
    /\ spc' = [spc EXCEPT ![s] = "cancelled"]
    /\ tpc' = [t \in Tasks |->
                  IF t[1] = s /\ tkind[t] # "none"
                     /\ tpc[t] \in {"get", "install", "exec", "prepare",
                                     "build", "start", "jb_get", "jb_prepare"}
                  THEN "cancelled" ELSE tpc[t]]
    /\ waitq' = SelectSeq(waitq, LAMBDA w : w[1] # s)
    /\ UNCHANGED <<free, tkind, holds, gets, puts, tres>>
    /\ UNCHANGED <<lang, events, ncases, idx, total>>
    /\ UNCHANGED fun_vars

\* the handler is cancelled at one of its awaits (the transport dropped);
\* shield() keeps the build and the judge tasks running
HandlerCancel(s) ==
    /\ spc[s] \in {"prepare", "compiling", "judging"}
    /\ spc' = [spc EXCEPT ![s] = "cancelled"]
    /\ UNCHANGED <<lang, events, ncases, idx, total>>
    /\ UNCHANGED pool_vars /\ UNCHANGED task_vars /\ UNCHANGED fun_vars

----------------------------------------------------------------------------
(* The state after start-up: every sandbox idle, nothing received *)

\* no run, no FIFO and no package is looked at on its own, and no bundle has
\* been read
NoRun == [pc |-> "none"]
NoPipe == [pc |-> "none"]
NoPkg == [pc |-> "none"]
NoBundle == [s \in Subs |-> "unread"]
NoDirs == [pc |-> "none"]
PartsIdle ==
    run = NoRun /\ pipe = NoPipe /\ pkg = NoPkg /\ bundle = NoBundle
    /\ dirs = NoDirs

Init ==
    /\ free = [b \in 1..PoolSize |-> b]
    /\ waitq = <<>>
    /\ tkind = [t \in Tasks |-> "none"]
    /\ tpc = [t \in Tasks |-> "none"]
    /\ holds = [t \in Tasks |-> <<>>]
    /\ gets = [t \in Tasks |-> 0]
    /\ puts = [t \in Tasks |-> 0]
    /\ tres = [t \in Tasks |-> NoResult]
    /\ spc = [s \in Subs |-> "receive"]
    /\ lang = [s \in Subs |-> "none"]
    /\ events = [s \in Subs |-> <<>>]
    /\ ncases = [s \in Subs |-> 0]
    /\ idx = [s \in Subs |-> 0]
    /\ total = [s \in Subs |-> NoResult]
    /\ fin = NoResult
    /\ fout = NoResult
    /\ fpc = "idle"
    /\ PartsIdle

----------------------------------------------------------------------------
(* The runners on their own: tasks of any kind are started and cancelled   *)
(* from outside, and a custom-judge run is handed the outcome of its judge *)
(* build, so that lines 170-263 of case.py are exercised.                  *)

Spawn(t) ==
    /\ tkind[t] = "none"
    /\ \E k \in {"compile", "default", "custom"} :
          /\ tkind' = [tkind EXCEPT ![t] = k]
          /\ tpc' = [tpc EXCEPT ![t] = FirstAwait(k)]
          /\ waitq' = IF FirstAwait(k) = "get" THEN Append(waitq, t) ELSE waitq
    /\ UNCHANGED <<free, holds, gets, puts, tres>>
    /\ UNCHANGED <<sub_vars, fun_vars>>

NextRunners ==
    \E t \in RunnerTasks :
        \/ Spawn(t)
        \/ DefaultAcquire(t) \/ DefaultInstall(t)
        \/ DefaultFinish(t) \/ DefaultCancel(t)
        \/ CompileAcquire(t) \/ CompilePrepare(t)
        \/ CompileFinish(t) \/ CompileCancel(t)
        \/ CustomBegin(t) \/ CustomJudgeBuildAcquire(t)
        \/ CustomJudgeBuildPrepare(t) \/ CustomJudgeBuilt(t)
        \/ CustomAcquire(t) \/ CustomPrepare(t) \/ CustomFinish(t)
        \/ CustomCancel(t)

SpecRunners == Init /\ [][NextRunners]_vars

\* one step of runner t that is neither its start nor its cancellation
RunnerStep(t) ==
    \/ DefaultAcquire(t) \/ DefaultInstall(t) \/ DefaultFinish(t)
    \/ CompileAcquire(t) \/ CompilePrepare(t) \/ CompileFinish(t)
    \/ CustomBegin(t) \/ CustomJudgeBuildAcquire(t)
    \/ CustomJudgeBuildPrepare(t) \/ CustomJudgeBuilt(t)
    \/ CustomAcquire(t) \/ CustomPrepare(t) \/ CustomFinish(t)

\* the event loop keeps running ready runners
FairSpecRunners ==
    SpecRunners /\ WF_vars(\E t \in RunnerTasks : RunnerStep(t))

----------------------------------------------------------------------------
(* The daemon: submissions are handled and their tasks run; nothing cancels *)
(* a build or a judge task, and a custom-judge case builds its judge with   *)
(* config None (case.py 167-169).                                           *)

Next ==
    \/ \E s \in Subs :
          \/ DoRecord(s) \/ Prepare(s) \/ BuildDone(s) \/ AwaitCase(s)
    \/ \E t \in Tasks :
          \/ DefaultAcquire(t) \/ DefaultInstall(t) \/ DefaultFinish(t)
          \/ CompileAcquire(t) \/ CompilePrepare(t)
          \/ CompileFinish(t) \/ InterpBuild(t)
          \/ CustomBegin(t) \/ CustomJudgeBuildAcquire(t)
          \/ CustomJudgeBuildPrepare(t)

Spec == Init /\ [][Next]_vars

\* the daemon whose transport may drop while a submission is handled
NextCancel == Next \/ \E s \in Subs : HandlerCancel(s)

SpecCancel == Init /\ [][NextCancel]_vars

\* one step of the build or judge task t
TaskStep(t) ==
    \/ DefaultAcquire(t) \/ DefaultInstall(t) \/ DefaultFinish(t)
    \/ CompileAcquire(t) \/ CompilePrepare(t)
    \/ CompileFinish(t) \/ InterpBuild(t)
    \/ CustomBegin(t) \/ CustomJudgeBuildAcquire(t)
    \/ CustomJudgeBuildPrepare(t)

\* the event loop keeps running ready tasks: while some task can take a
\* step, some task eventually does
FairSpecCancel == SpecCancel /\ WF_vars(\E t \in Tasks : TaskStep(t))

----------------------------------------------------------------------------
(* The verdict of a default run on its own: the joined tasks hand their    *)
(* values to lines 83-97 of case.py.                                       *)

DefaultInputs ==
    [cpu : CpuMeasured, wall_fired : BOOLEAN, mem : MemoryPeaks,
     execute_status : ExitStatuses, correct : BOOLEAN, i : 0..MaxCases]

InitVerdict ==
    /\ free = [b \in 1..PoolSize |-> b]
    /\ waitq = <<>>
    /\ tkind = [t \in Tasks |-> "none"]
    /\ tpc = [t \in Tasks |-> "none"]
    /\ holds = [t \in Tasks |-> <<>>]
    /\ gets = [t \in Tasks |-> 0]
    /\ puts = [t \in Tasks |-> 0]
    /\ tres = [t \in Tasks |-> NoResult]
    /\ spc = [s \in Subs |-> "receive"]
    /\ lang = [s \in Subs |-> "none"]
    /\ events = [s \in Subs |-> <<>>]
    /\ ncases = [s \in Subs |-> 0]
    /\ idx = [s \in Subs |-> 0]
    /\ total = [s \in Subs |-> NoResult]
    /\ fin \in DefaultInputs
    /\ fout = NoResult
    /\ fpc = "ready"
    /\ PartsIdle

\* case.py 72-97: the controller's usage pair and the verdict
ApplyDefaultVerdict ==
    /\ fpc = "ready"
    /\ LET usage == DefaultUsage(fin.cpu, fin.wall_fired, fin.mem, fin.i)
       IN  fout' = DefaultVerdict(usage[2], usage[1], fin.execute_status,
                                  fin.correct, fin.i)
    /\ fpc' = "done"
    /\ UNCHANGED <<fin, pool_vars, task_vars, sub_vars, part_vars>>

NextVerdict == ApplyDefaultVerdict

SpecVerdict == InitVerdict /\ [][NextVerdict]_vars

----------------------------------------------------------------------------
(* The verdict of a custom-judge run on its own: the joined tasks hand     *)
(* their values to lines 241-261 of case.py.                               *)

CustomInputs ==
    [cpu : CpuMeasured, wall_fired : BOOLEAN, mem : MemoryPeaks,
     user_status : ExitStatuses, jcpu : JudgeCpu, jmem : JudgePeaks,
     judge_status : {0, 1}, tokens : JudgeStdouts, i : 0..MaxCases]

InitCustomVerdict ==
    /\ free = [b \in 1..PoolSize |-> b]
    /\ waitq = <<>>
    /\ tkind = [t \in Tasks |-> "none"]
    /\ tpc = [t \in Tasks |-> "none"]
    /\ holds = [t \in Tasks |-> <<>>]
    /\ gets = [t \in Tasks |-> 0]
    /\ puts = [t \in Tasks |-> 0]
    /\ tres = [t \in Tasks |-> NoResult]
    /\ spc = [s \in Subs |-> "receive"]
    /\ lang = [s \in Subs |-> "none"]
    /\ events = [s \in Subs |-> <<>>]
    /\ ncases = [s \in Subs |-> 0]
    /\ idx = [s \in Subs |-> 0]
    /\ total = [s \in Subs |-> NoResult]
    /\ fin \in CustomInputs
    /\ fout = NoResult
    /\ fpc = "ready"
    /\ PartsIdle

\* case.py 235-261: the two usage pairs and the verdict; the parse of line
\* 257 raises ValueError when the judge's stdout is not two integers
ApplyCustomVerdict ==
    /\ fpc = "ready"
    /\ LET user == CustomUserUsage(fin.cpu, fin.wall_fired, fin.mem, fin.i)
           judge == CustomJudgeUsage(fin.jcpu, fin.jmem)
       IN  IF /\ CustomReadsJudgeOutput(fin.judge_status, judge[2], judge[1],
                                        user[2], user[1], fin.user_status,
                                        fin.i)
              /\ ~JudgeOutputParses(fin.tokens)
           THEN fout' = NoResult /\ fpc' = "raised"
           ELSE /\ fout' = CustomVerdict(fin.judge_status, judge[2], judge[1],
                                         user[2], user[1], fin.user_status,
                                         fin.tokens, fin.i)
                /\ fpc' = "done"
    /\ UNCHANGED <<fin, pool_vars, task_vars, sub_vars, part_vars>>

NextCustomVerdict == ApplyCustomVerdict

SpecCustomVerdict == InitCustomVerdict /\ [][NextCustomVerdict]_vars

----------------------------------------------------------------------------
(* One run of a default case, step by step: lines 58-117 of case.py with   *)
(* the sandboxed child (jd4.sandbox), the controller (jd4.cgroup), the     *)
(* stdin writer (do_input) and the two readers (read_pipe).                *)

\* the daemon has handled nothing: the state of Init without the parts
DaemonIdle ==
    /\ free = [b \in 1..PoolSize |-> b]
    /\ waitq = <<>>
    /\ tkind = [t \in Tasks |-> "none"]
    /\ tpc = [t \in Tasks |-> "none"]
    /\ holds = [t \in Tasks |-> <<>>]
    /\ gets = [t \in Tasks |-> 0]
    /\ puts = [t \in Tasks |-> 0]
    /\ tres = [t \in Tasks |-> NoResult]
    /\ spc = [s \in Subs |-> "receive"]
    /\ lang = [s \in Subs |-> "none"]
    /\ events = [s \in Subs |-> <<>>]
    /\ ncases = [s \in Subs |-> 0]
    /\ idx = [s \in Subs |-> 0]
    /\ total = [s \in Subs |-> NoResult]

FunIdle == fin = NoResult /\ fout = NoResult /\ fpc = "idle"

\* lines 58-77 have run: the socket listens, the execution task and the
\* gathered writer, readers and controller are started, and the sandbox
\* routine has forked its child. The input fits into the FIFO's buffer or
\* not.
InitRun ==
    /\ DaemonIdle /\ FunIdle
    /\ pipe = NoPipe /\ pkg = NoPkg /\ bundle = NoBundle /\ dirs = NoDirs
    /\ \E fits \in BOOLEAN :
          run = [runner |-> "await_execute", released |-> FALSE,
                 execute |-> "pending", status |-> 0,
                 child |-> "forked", stdin_open |-> FALSE, consumed |-> FALSE,
                 in_group |-> FALSE, attached |-> 0, refused |-> 0,
                 accept_open |-> TRUE, ctl |-> "accept", wall_fired |-> FALSE,
                 writer |-> "opening", stdout |-> "reading",
                 stderr |-> "reading", input_fits |-> fits]

RunStep(r) ==
    /\ run' = r
    /\ UNCHANGED <<pool_vars, task_vars, sub_vars, fin, fout, fpc>>
    /\ UNCHANGED <<pipe, pkg, bundle, dirs>>

\* case.py 138 and the child's open of /in/stdin: opening a FIFO for writing
\* blocks until it is open for reading and the other way round, so do_input
\* and the child pass their opens together
OpenStdin ==
    /\ run.writer = "opening" /\ run.child = "forked"
    /\ RunStep([run EXCEPT !.writer = "writing", !.child = "opened",
                           !.stdin_open = TRUE])

\* the child ends before it runs the program: the routine of the sandbox
\* fails after the fork, with or without its stdio opened
ChildFail ==
    /\ run.child \in {"forked", "opened"}
    /\ RunStep([run EXCEPT !.child = "ended", !.status = 1,
                           !.stdin_open = FALSE])

\* the child connects to the socket of line 59-60 and blocks
ChildConnect ==
    /\ run.child = "opened"
    /\ run.accept_open
    /\ RunStep([run EXCEPT !.child = "connecting"])

\* the controller accepts the connection, moves the peer into the group and
\* closes the accept side
ControllerAccept ==
    /\ run.ctl = "accept" /\ run.child = "connecting"
    /\ RunStep([run EXCEPT !.ctl = "waiting", !.child = "accepted",
                           !.in_group = TRUE, !.attached = @ + 1,
                           !.accept_open = FALSE])

\* a variant of the child that calls exec while it still waits at the socket
ChildExecUnattached ==
    /\ run.child \in {"connecting", "accepted"}
    /\ RunStep([run EXCEPT !.child = "exec"])

\* the child, released by the acceptance, calls exec
ChildExec ==
    /\ run.child = "accepted"
    /\ RunStep([run EXCEPT !.child = "exec"])

\* the program reads its input to the end
ProgramRead ==
    /\ run.child = "exec" /\ run.stdin_open /\ ~run.consumed
    /\ RunStep([run EXCEPT !.consumed = TRUE])

\* the program closes its stdin
ProgramCloseStdin ==
    /\ run.child = "exec" /\ run.stdin_open
    /\ RunStep([run EXCEPT !.stdin_open = FALSE])

\* the program connects to /in/cgroup itself: with the accept side closed it
\* is refused, with it open the controller would move it into the group
ProgramConnect ==
    /\ run.child = "exec" /\ run.refused = 0
    /\ IF run.accept_open
       THEN RunStep([run EXCEPT !.attached = @ + 1])
       ELSE RunStep([run EXCEPT !.refused = 1])

\* the program exits
ProgramExit ==
    /\ run.child = "exec"
    /\ \E st \in {0, 1} :
          RunStep([run EXCEPT !.child = "ended", !.status = st,
                              !.stdin_open = FALSE])

\* compile.py 39-46: sandbox.call returns the status of the child it waited
\* for and the execution task resolves
ExecuteResolve ==
    /\ run.execute = "pending" /\ run.child = "ended"
    /\ RunStep([run EXCEPT !.execute = "done"])

\* the wall-clock timer fires before the execution task has resolved: the
\* controller kills every process of the group
ControllerTimeout ==
    /\ run.ctl = "waiting" /\ run.execute = "pending"
    /\ RunStep([run EXCEPT
           !.ctl = "killed", !.wall_fired = TRUE,
           !.child = IF run.in_group THEN "ended" ELSE @,
           !.status = IF run.in_group /\ run.child # "ended" THEN -9 ELSE @,
           !.stdin_open = IF run.in_group THEN FALSE ELSE @])

\* the execution task resolved first: the controller reads the usage of the
\* group, destroys it and returns
ControllerReturn ==
    /\ run.ctl = "waiting" /\ run.execute = "done"
    /\ RunStep([run EXCEPT !.ctl = "returned"])

\* a variant of the controller that returns as soon as it has killed
ControllerAfterKillAtOnce ==
    /\ run.ctl = "killed"
    /\ RunStep([run EXCEPT !.ctl = "returned"])

\* after the kill the controller returns once the execution task resolved
ControllerAfterKill ==
    /\ run.ctl = "killed" /\ run.execute = "done"
    /\ RunStep([run EXCEPT !.ctl = "returned"])

\* case.py 136-141: dos2unix has written the input, or a write fails with
\* BrokenPipeError because the read end is closed, and do_input returns. A
\* write of more than the buffer holds blocks while the read end is open
\* and nothing is read.
WriterFinish ==
    /\ run.writer = "writing"
    /\ run.input_fits \/ run.consumed \/ ~run.stdin_open
    /\ RunStep([run EXCEPT !.writer = "done"])

\* case.py 138: open_input() raises (the member is not in the bundle)
WriterRaise ==
    /\ run.writer = "writing"
    /\ RunStep([run EXCEPT !.writer = "raised"])

\* util.py 69-76: read_pipe leaves its loop at end of file, which it sees
\* once the child has ended, or with its cap consumed while the program
\* still writes
ReadPipeReturn(r) ==
    /\ \/ r = "stdout" /\ run.stdout = "reading"
          /\ run.child \in {"exec", "ended"}
          /\ RunStep([run EXCEPT !.stdout = "done"])
       \/ r = "stderr" /\ run.stderr = "reading"
          /\ run.child \in {"exec", "ended"}
          /\ RunStep([run EXCEPT !.stderr = "done"])

\* case.py 78: execute_status = await execute_task
RunnerExecute ==
    /\ run.runner = "await_execute" /\ run.execute = "done"
    /\ RunStep([run EXCEPT !.runner = "await_others"])

\* case.py 79-80 and 102-113: the gathered tasks have all returned, or the
\* writer raised, which sends judge through its except branch
RunnerOthers ==
    /\ run.runner = "await_others"
    /\ \/ /\ run.writer = "done" /\ run.stdout = "done"
          /\ run.stderr = "done" /\ run.ctl = "returned"
          /\ RunStep([run EXCEPT !.runner = "compare"])
       \/ /\ run.writer = "raised"
          /\ RunStep([run EXCEPT !.runner = "returned", !.released = TRUE])

\* case.py 82-117: the comparison, the verdict, the finally block and
\* do_answer, which raises out of judge when open_output raises
RunnerCompare ==
    /\ run.runner = "compare"
    /\ \E answer_ok \in BOOLEAN :
          RunStep([run EXCEPT
              !.runner = IF answer_ok THEN "returned" ELSE "raised",
              !.released = TRUE])

NextRun ==
    \/ OpenStdin \/ ChildFail \/ ChildConnect \/ ControllerAccept
    \/ ChildExec \/ ProgramRead \/ ProgramCloseStdin \/ ProgramConnect
    \/ ProgramExit \/ ExecuteResolve \/ ControllerTimeout
    \/ ControllerReturn \/ ControllerAfterKill
    \/ WriterFinish \/ WriterRaise
    \/ \E r \in {"stdout", "stderr"} : ReadPipeReturn(r)
    \/ RunnerExecute \/ RunnerOthers \/ RunnerCompare

SpecRun == InitRun /\ [][NextRun]_vars

----------------------------------------------------------------------------
(* jd4/case.py: read_yaml_cases on its own *)

MaxDescriptor == 3

\* the `category` member of a case: absent, empty, or a name
Categories == {"absent", "", "pretest", "final"}

\* a case of the descriptor: its category and whether it has a `judge` member
DescriptorCases == [category : Categories, judge : BOOLEAN]

\* the descriptors: up to MaxDescriptor cases
Descriptors == UNION {[1..n -> DescriptorCases] : n \in 0..MaxDescriptor}

\* daemon.py 52-53: the categories the request names, none for an empty field
JudgeCategories == SUBSET {"pretest", "final"}

\* line 351: judge_category or ['pretest']
EffectiveCategories(judge_category) ==
    IF judge_category = {} THEN {"pretest"} ELSE judge_category

\* line 358: case.get('category') or 'pretest'
CaseCategory(case) ==
    IF case.category \in {"absent", ""} THEN "pretest" ELSE case.category

\* lines 363-370: DefaultCase(..., index); CaseBase.__init__ stores it
DefaultCaseObject(k, index) == [kind |-> "default", pos |-> k, index |-> index]

\* lines 372-376 and 157-163: CustomJudgeCase(...) is given no index and its
\* constructor sets no such attribute
CustomJudgeCaseObject(k, index) == [kind |-> "custom", pos |-> k]

\* lines 352-376: the cases yielded from position k on, index cases yielded
\* before
RECURSIVE YieldFrom(_, _, _, _)
YieldFrom(cases, judge_category, k, index) ==
    IF k > Len(cases) THEN <<>>
    ELSE IF CaseCategory(cases[k]) \notin judge_category
    THEN YieldFrom(cases, judge_category, k + 1, index)
    ELSE <<IF ~cases[k].judge
           THEN DefaultCaseObject(k, index + 1)
           ELSE CustomJudgeCaseObject(k, index + 1)>>
         \o YieldFrom(cases, judge_category, k + 1, index + 1)

\* lines 350-376
read_yaml_cases(cases, judge_category) ==
    YieldFrom(cases, EffectiveCategories(judge_category), 1, 0)

InitCases ==
    /\ DaemonIdle /\ PartsIdle
    /\ fin \in [cases : Descriptors, judge_category : JudgeCategories]
    /\ fout = <<>>
    /\ fpc = "ready"

\* daemon.py 128: list(self.config['cases'])
ApplyReadYamlCases ==
    /\ fpc = "ready"
    /\ fout' = read_yaml_cases(fin.cases, fin.judge_category)
    /\ fpc' = "done"
    /\ UNCHANGED <<fin, pool_vars, task_vars, sub_vars, part_vars>>

NextCases == ApplyReadYamlCases

SpecCases == InitCases /\ [][NextCases]_vars

----------------------------------------------------------------------------
(* The daemon with the problem bundle of every submission known *)

\* the bundle of a problem: a descriptor every selected case of which has
\* readable limits, no config.yaml at all, or a selected case whose time or
\* memory field parse_time_ns / parse_memory_bytes rejects
BundleKinds == {"ok", "noconfig", "badlimit"}

InitBundle ==
    /\ DaemonIdle /\ FunIdle
    /\ run = NoRun /\ pipe = NoPipe /\ pkg = NoPkg /\ dirs = NoDirs
    /\ bundle \in [Subs -> BundleKinds]

\* daemon.py 98 with case.py 439-444: read_config raises FormatError for a
\* bundle without config.yaml, so prepare() does not reach the build. With a
\* config.yaml it returns the descriptor with data['cases'] a generator
\* that has not run yet (case.py 350, 399): no limit has been parsed.
PrepareBundle(s) ==
    /\ Prepare(s)
    /\ bundle[s] = "noconfig" => spc'[s] # "compiling"

\* daemon.py 128 with case.py 363-366 and util.py 79-90: list() runs the
\* generator after the build has resolved with a package, and the limits of
\* the selected cases are parsed there; FormatError leaves judge() before
\* JUDGING is sent and before a task is created
BuildDoneBundle(s) ==
    /\ BuildDone(s)
    /\ bundle[s] = "badlimit" => spc'[s] \notin {"judging", "done"}

NextBundle ==
    \/ \E s \in Subs :
          \/ DoRecord(s) \/ PrepareBundle(s) \/ BuildDoneBundle(s)
          \/ AwaitCase(s)
    \/ \E t \in Tasks : TaskStep(t)

SpecBundle == InitBundle /\ [][NextBundle]_vars

----------------------------------------------------------------------------
(* jd4/compile.py: the package directory of one submission and the         *)
(* references to its Package object                                        *)

\* the cases of the submission looked at
PkgCases == 1..2

\* the holder name of case task i: the `package` argument of its coroutine
CaseRef(i) == IF i = 1 THEN "case1" ELSE "case2"

\* compile.py 55-56: __del__ runs when the last reference goes and removes
\* the directory
Finalize(p) ==
    IF p.refs = {} /\ p.build = "packaged" /\ p.dir = "present"
    THEN [p EXCEPT !.dir = "deleted"] ELSE p

PkgStep(p) ==
    /\ pkg' = Finalize(p)
    /\ UNCHANGED <<pool_vars, task_vars, sub_vars, fin, fout, fpc, run, pipe,
                   bundle, dirs>>

InitPackage ==
    /\ DaemonIdle /\ FunIdle
    /\ run = NoRun /\ pipe = NoPipe /\ bundle = NoBundle /\ dirs = NoDirs
    /\ \E fn \in {"compiler", "interpreter"} : \E n \in 0..2 :
          pkg = [pc |-> "built", build_fn |-> fn, n |-> n, build |-> "start",
                 dir |-> "absent", refs |-> {}, handler |-> "await_build",
                 idx |-> 0, case |-> [i \in PkgCases |-> "none"],
                 stale |-> FALSE]

\* compile.py 125-126: the compiler exits with a status other than 0
CompileFails ==
    /\ pkg.build_fn = "compiler" /\ pkg.build = "start"
    /\ PkgStep([pkg EXCEPT !.build = "no_package"])

\* compile.py 133 and 152: mkdtemp(prefix='jd4.package.')
Mkdtemp ==
    /\ pkg.build = "start"
    /\ PkgStep([pkg EXCEPT !.build = "made", !.dir = "present"])

\* compile.py 134-137 and 153-171: filling the directory raises (copytree,
\* extract_archive on the submitted archive, runtime_files with no member
\* of that name: case.py 429-430); nothing removes the directory
BuildRaises ==
    /\ pkg.build = "made"
    /\ PkgStep([pkg EXCEPT !.build = "raised"])

\* compile.py 140 and 174: Package(package_dir, ...) becomes the result of
\* the build; a result nobody awaits any more goes with its task
PackageMade ==
    /\ pkg.build = "made"
    /\ PkgStep([pkg EXCEPT !.build = "packaged",
                           !.refs = IF pkg.handler = "await_build"
                                    THEN {"build"} ELSE {}])

\* daemon.py 118-138: the build resolves. Without a package the handler
\* ends; with one, judge() either raises while it lists the cases or gives
\* the package to one task per case
HandlerBuildDone ==
    /\ pkg.handler = "await_build"
    /\ \/ /\ pkg.build = "raised"
          /\ PkgStep([pkg EXCEPT !.handler = "system_error"])
       \/ /\ pkg.build = "no_package"
          /\ PkgStep([pkg EXCEPT !.handler = "compile_error"])
       \/ /\ pkg.build = "packaged"
          /\ PkgStep([pkg EXCEPT !.handler = "system_error", !.refs = {}])
       \/ /\ pkg.build = "packaged"
          /\ PkgStep([pkg EXCEPT
                 !.handler = IF pkg.n = 0 THEN "done" ELSE "judging",
                 !.refs = IF pkg.n = 0 THEN {}
                          ELSE {"handler"} \cup {CaseRef(i) : i \in 1..pkg.n},
                 !.case = [i \in PkgCases |->
                              IF i <= pkg.n THEN "get" ELSE "none"]])

\* the raised case tasks: the exception each of them stores holds, through
\* its traceback, the frame of the coroutine and so its `package`
RaisedRefs(p) == {CaseRef(i) : i \in {j \in PkgCases : p.case[j] = "raised"}}

\* the handler is cancelled at an await: its frames go, and with them
\* judge_tasks and the finished tasks; running ones go on (shield)
PackageHandlerCancel ==
    /\ pkg.handler \in {"await_build", "judging"}
    /\ PkgStep([pkg EXCEPT !.handler = "cancelled",
                           !.refs = @ \ ({"handler", "build"}
                                         \cup RaisedRefs(pkg))])

\* case.py 50-53 with compile.py 68-73: the task has its sandbox and copies
\* the tree out of package_dir
CaseInstall(i) ==
    /\ pkg.case[i] = "get"
    /\ PkgStep([pkg EXCEPT !.case[i] = "install",
                           !.stale = @ \/ pkg.dir # "present"])

\* case.py 54-117: the run returns and the coroutine ends
CaseReturn(i) ==
    /\ pkg.case[i] = "install"
    /\ PkgStep([pkg EXCEPT !.case[i] = "returned", !.refs = @ \ {CaseRef(i)}])

\* case.py 50-117: the run raises. While the frames of the handler are
\* alive, judge_tasks holds the task and its exception
CaseRaise(i) ==
    /\ pkg.case[i] = "install"
    /\ PkgStep([pkg EXCEPT !.case[i] = "raised",
                           !.refs = IF "handler" \in pkg.refs THEN @
                                    ELSE @ \ {CaseRef(i)}])

\* daemon.py 139-171 and 80-83: the awaited task resolves. An exception out
\* of `await shield(judge_task)` gets the frame of judge() in its traceback,
\* the frame holds judge_tasks, the task holds the exception: the handler
\* ends, but package stays referenced from that cycle
PackageAwaitCase ==
    /\ pkg.handler = "judging"
    /\ \/ /\ pkg.case[pkg.idx + 1] = "returned"
          /\ LET last == pkg.idx + 1 = pkg.n IN
             PkgStep([pkg EXCEPT !.idx = @ + 1,
                                 !.handler = IF last THEN "done" ELSE @,
                                 !.refs = IF last THEN @ \ {"handler"} ELSE @])
       \/ /\ pkg.case[pkg.idx + 1] = "raised"
          /\ PkgStep([pkg EXCEPT !.handler = "system_error"])

\* the cyclic collector of the interpreter frees the cycle
Collect ==
    /\ pkg.handler = "system_error" /\ "handler" \in pkg.refs
    /\ PkgStep([pkg EXCEPT !.refs = @ \ ({"handler"} \cup RaisedRefs(pkg))])

NextPackage ==
    \/ CompileFails \/ Mkdtemp \/ BuildRaises \/ PackageMade
    \/ HandlerBuildDone \/ PackageHandlerCancel
    \/ \E i \in PkgCases : CaseInstall(i) \/ CaseReturn(i) \/ CaseRaise(i)
    \/ PackageAwaitCase \/ Collect

SpecPackage == InitPackage /\ [][NextPackage]_vars

----------------------------------------------------------------------------
(* jd4/util.py: parse_time_ns and parse_memory_bytes. Strings are sequences *)
(* of characters. Natural numbers of any size are sequences of bits, the    *)
(* least significant first and the last one 1, so that 0 is <<>>.           *)

MaxLen == 5

\* b without its high 0 bits
Trim(b) ==
    LET ones == {i \in 1..Len(b) : b[i] = 1} IN
    IF ones = {} THEN <<>>
    ELSE SubSeq(b, 1, CHOOSE i \in ones : \A j \in ones : j <= i)

\* the bits of a number below 2^31
BitsOf(n) ==
    LET len == Cardinality({k \in 0..30 : 2^k <= n})
    IN  [i \in 1..len |-> (n \div 2^(i - 1)) % 2]

Bit(b, i) == IF i \in 1..Len(b) THEN b[i] ELSE 0

\* the sum of the bits lo..hi of a and b and the carry into them: its bits
\* and the carry out of them (a carry is 0 or 1: the test on it makes TLC
\* add the lower half before it descends into the upper one)
RECURSIVE AddRange(_, _, _, _, _)
AddRange(a, b, lo, hi, carry) ==
    IF lo > hi THEN [bits |-> <<>>, carry |-> carry]
    ELSE IF lo = hi
    THEN LET sum == Bit(a, lo) + Bit(b, lo) + carry
         IN  [bits |-> <<sum % 2>>, carry |-> sum \div 2]
    ELSE LET mid == (lo + hi) \div 2
             low == AddRange(a, b, lo, mid, carry)
         IN  IF low.carry > 1 THEN low
             ELSE LET high == AddRange(a, b, mid + 1, hi, low.carry)
                  IN  [bits |-> low.bits \o high.bits, carry |-> high.carry]

AddBits(a, b, carry) ==
    LET sum == AddRange(a, b, 1, Max(Len(a), Len(b)), carry)
    IN  Trim(sum.bits \o <<sum.carry>>)

ShiftL(b, k) == IF b = <<>> THEN <<>> ELSE [i \in 1..k |-> 0] \o b

ShiftR(b, k) == IF k >= Len(b) THEN <<>> ELSE SubSeq(b, k + 1, Len(b))

\* a times the part of b made of its bits lo..hi
RECURSIVE MulRange(_, _, _, _)
MulRange(a, b, lo, hi) ==
    IF lo = hi THEN (IF b[lo] = 1 THEN ShiftL(a, lo - 1) ELSE <<>>)
    ELSE LET mid == (lo + hi) \div 2
         IN  AddBits(MulRange(a, b, lo, mid), MulRange(a, b, mid + 1, hi), 0)

MulBits(a, b) ==
    IF a = <<>> \/ b = <<>> THEN <<>> ELSE MulRange(a, b, 1, Len(b))

\* long division by the small number d of the bits hi down to lo of a, with
\* the remainder r left by the bits above them: the bits of the quotient
\* and the remainder (a remainder is below d: the test on it makes TLC
\* divide the upper half before it descends into the lower one)
RECURSIVE DivRange(_, _, _, _, _)
DivRange(a, lo, hi, r, d) ==
    IF lo = hi
    THEN LET cur == 2 * r + a[lo]
         IN  [q |-> <<cur \div d>>, r |-> cur % d]
    ELSE LET mid == (lo + hi) \div 2
             high == DivRange(a, mid + 1, hi, r, d)
         IN  IF high.r >= d THEN high
             ELSE LET low == DivRange(a, lo, mid, high.r, d)
                  IN  [q |-> low.q \o high.q, r |-> low.r]

\* quotient (not trimmed) and remainder of a by the small number d
DivSmall(a, d) ==
    IF a = <<>> THEN [q |-> <<>>, r |-> 0] ELSE DivRange(a, 1, Len(a), 0, d)

RECURSIVE Pow10(_)
Pow10(f) == IF f = 0 THEN 1 ELSE 10 * Pow10(f - 1)

\* the characters the strings tried are made of
TimeAlphabet == {"1", "4", "5", ".", "m", "u", "n", "s"}
MemoryAlphabet == {"2", "5", ".", "k", "m", "g", "b"}
Strings(alphabet) == UNION {[1..n -> alphabet] : n \in 0..MaxLen}

DigitChars == <<"0", "1", "2", "3", "4", "5", "6", "7", "8", "9">>
IsDigit(c) == \E k \in 1..10 : DigitChars[k] = c
DigitValue(c) == (CHOOSE k \in 1..10 : DigitChars[k] = c) - 1

\* the number a run of digits denotes
RECURSIVE NatOf(_)
NatOf(ds) ==
    IF ds = <<>> THEN 0
    ELSE 10 * NatOf(SubSeq(ds, 1, Len(ds) - 1)) + DigitValue(ds[Len(ds)])

\* lines 20 and 22
TIME_UNITS ==
    ("" :> 1000000000) @@ ("m" :> 1000000) @@ ("u" :> 1000) @@ ("n" :> 1)
MEMORY_UNITS ==
    ("" :> 1) @@ ("k" :> 1024) @@ ("m" :> 1048576) @@ ("g" :> 1073741824)

\* [0-9]* from position i on: the length of the run of digits there
RECURSIVE DigitRun(_, _)
DigitRun(s, i) ==
    IF i <= Len(s) /\ IsDigit(s[i]) THEN 1 + DigitRun(s, i + 1) ELSE 0

\* lines 19 and 21 with fullmatch: ([0-9]+(?:\.[0-9]*)?)([units]?)suffix?
\* against the whole of s; the digits before and after the point and the
\* unit letter matched
FullMatch(s, units, suffix) ==
    LET d1 == DigitRun(s, 1)
        dot == d1 + 1 <= Len(s) /\ s[d1 + 1] = "."
        d2 == IF dot THEN DigitRun(s, d1 + 2) ELSE 0
        g1 == IF dot THEN d1 + 1 + d2 ELSE d1
        has_unit == g1 + 1 <= Len(s) /\ s[g1 + 1] \in units
        g2 == IF has_unit THEN g1 + 1 ELSE g1
        has_suffix == g2 + 1 <= Len(s) /\ s[g2 + 1] = suffix
        end == IF has_suffix THEN g2 + 1 ELSE g2
    IN  IF d1 >= 1 /\ end = Len(s)
        THEN [matched |-> TRUE, int |-> SubSeq(s, 1, d1),
              frac |-> IF dot THEN SubSeq(s, d1 + 2, g1) ELSE <<>>,
              unit |-> IF has_unit THEN s[g1 + 1] ELSE ""]
        ELSE [matched |-> FALSE]

\* a double is m * 2^e with m of 53 bits: the bits b, of which `sticky`
\* says whether something not 0 was cut off below them, rounded to the
\* nearest such number, to the even one of two equally near
Round53(b, sticky) ==
    LET drop == Len(b) - 53 IN
    IF drop <= 0 THEN [m |-> b, e |-> 0]
    ELSE LET m == SubSeq(b, drop + 1, Len(b))
             half == b[drop] = 1
             low == sticky \/ \E i \in 1..(drop - 1) : b[i] = 1
             up == half /\ (low \/ m[1] = 1)
         IN  [m |-> IF up THEN AddBits(m, <<>>, 1) ELSE m, e |-> drop]

\* the fraction is cut to this many bits below the point before rounding
GuardBits == 96

\* float(match.group(1)): the double nearest to the decimal numeral
float(whole, frac) ==
    LET n == NatOf(whole \o frac)
        dv == DivSmall(ShiftL(BitsOf(n), GuardBits), Pow10(Len(frac)))
        r == Round53(Trim(dv.q), dv.r # 0)
    IN  [m |-> r.m, e |-> r.e - GuardBits]

\* float * int: the multiplier is a double as it is, and the product is
\* rounded to a double
FloatTimes(x, unit) ==
    LET r == Round53(Trim(MulBits(x.m, BitsOf(unit))), FALSE)
    IN  [m |-> r.m, e |-> x.e + r.e]

\* int(float): towards zero
int(x) == IF x.e >= 0 THEN ShiftL(x.m, x.e) ELSE Trim(ShiftR(x.m, 0 - x.e))

\* FormatError
Raised == [raised |-> TRUE]
Returned(v) == [raised |-> FALSE, value |-> v]

\* lines 79-83
parse_time_ns(time_str) ==
    LET match == FullMatch(time_str, {"m", "u", "n"}, "s") IN
    IF ~match.matched THEN Raised
    ELSE Returned(int(FloatTimes(float(match.int, match.frac),
                                 TIME_UNITS[match.unit])))

\* lines 86-90
parse_memory_bytes(memory_str) ==
    LET match == FullMatch(memory_str, {"k", "m", "g"}, "b") IN
    IF ~match.matched THEN Raised
    ELSE Returned(int(FloatTimes(float(match.int, match.frac),
                                 MEMORY_UNITS[match.unit])))

InitParse ==
    /\ DaemonIdle /\ PartsIdle
    /\ fin \in {[fn |-> "time", str |-> s] : s \in Strings(TimeAlphabet)}
           \cup {[fn |-> "memory", str |-> s] : s \in Strings(MemoryAlphabet)}
    /\ fout = Raised
    /\ fpc = "ready"

ApplyParseTime ==
    /\ fpc = "ready" /\ fin.fn = "time"
    /\ fout' = parse_time_ns(fin.str)
    /\ fpc' = "done"
    /\ UNCHANGED <<fin, pool_vars, task_vars, sub_vars, part_vars>>

ApplyParseMemory ==
    /\ fpc = "ready" /\ fin.fn = "memory"
    /\ fout' = parse_memory_bytes(fin.str)
    /\ fpc' = "done"
    /\ UNCHANGED <<fin, pool_vars, task_vars, sub_vars, part_vars>>

NextParse == ApplyParseTime \/ ApplyParseMemory

SpecParse == InitParse /\ [][NextParse]_vars

----------------------------------------------------------------------------
(* jd4/util.py: read_pipe on a FIFO and the process that writes to it. The *)
(* bytes written are numbered 1, 2, ... in the order they are written.     *)

MaxCap == 3
MaxBytes == 4
PipeCapacity == 2

InitPipe ==
    /\ DaemonIdle /\ FunIdle
    /\ run = NoRun /\ pkg = NoPkg /\ bundle = NoBundle /\ dirs = NoDirs
    /\ \E cap \in 1..MaxCap : \E len \in 0..MaxBytes :
          pipe = [pc |-> "connect", cap |-> cap, size |-> cap, chunks |-> <<>>,
                  open |-> TRUE, eof |-> FALSE, buffer |-> <<>>,
                  writer |-> "unopened", written |-> 0, total |-> len]

PipeStep(p) ==
    /\ pipe' = p
    /\ UNCHANGED <<pool_vars, task_vars, sub_vars, fin, fout, fpc, run, pkg,
                   bundle, dirs>>

\* the writer opens the FIFO for writing; the open waits for a reader
WriterOpen ==
    /\ pipe.writer = "unopened" /\ pipe.open
    /\ PipeStep([pipe EXCEPT !.writer = "writing"])

\* the writer writes some of its bytes, as many as the pipe has room for
WriterWrite ==
    /\ pipe.writer = "writing" /\ pipe.open
    /\ \E k \in 1..Min(pipe.total - pipe.written,
                       PipeCapacity - Len(pipe.buffer)) :
          PipeStep([pipe EXCEPT
              !.buffer = @ \o [j \in 1..k |-> pipe.written + j],
              !.written = @ + k])

\* the writer has written all it had and closes its end
WriterClose ==
    /\ pipe.writer = "writing" /\ pipe.written = pipe.total
    /\ PipeStep([pipe EXCEPT !.writer = "closed"])

\* a write to a FIFO whose read end is closed fails with EPIPE
WriterBrokenPipe ==
    /\ pipe.writer = "writing" /\ ~pipe.open /\ pipe.written < pipe.total
    /\ PipeStep([pipe EXCEPT !.writer = "broken"])

\* lines 63-69: the pipe is connected and the loop is entered
ReaderConnected ==
    /\ pipe.pc = "connect"
    /\ PipeStep([pipe EXCEPT !.pc = "reading"])

\* a variant of the loop that takes whatever the pipe holds
ReadChunkWhole ==
    /\ pipe.pc = "reading" /\ pipe.buffer # <<>>
    /\ LET left == pipe.size - Len(pipe.buffer) IN
       PipeStep([pipe EXCEPT
           !.chunks = @ \o pipe.buffer, !.buffer = <<>>, !.size = left,
           !.pc = IF left > 0 THEN "reading" ELSE "returned",
           !.open = left > 0])

\* lines 69-76: reader.read(size) resolves with what the pipe holds, at
\* most size bytes; the chunk is kept and size goes down by its length;
\* at size 0 the loop ends, the transport is closed and the bytes returned
ReadChunk ==
    /\ pipe.pc = "reading" /\ pipe.buffer # <<>>
    /\ LET k == Min(pipe.size, Len(pipe.buffer))
           left == pipe.size - k
       IN  PipeStep([pipe EXCEPT
               !.chunks = @ \o SubSeq(pipe.buffer, 1, k),
               !.buffer = SubSeq(@, k + 1, Len(@)),
               !.size = left,
               !.pc = IF left > 0 THEN "reading" ELSE "returned",
               !.open = left > 0])

\* lines 70-76: every writer has closed and the pipe is empty, read()
\* resolves with b'', the loop is left, the transport is closed
ReadEof ==
    /\ pipe.pc = "reading" /\ pipe.buffer = <<>> /\ pipe.writer = "closed"
    /\ PipeStep([pipe EXCEPT !.eof = TRUE, !.pc = "returned", !.open = FALSE])

NextPipe ==
    \/ WriterOpen \/ WriterWrite \/ WriterClose \/ WriterBrokenPipe
    \/ ReaderConnected \/ ReadChunk \/ ReadEof

SpecPipe == InitPipe /\ [][NextPipe]_vars

----------------------------------------------------------------------------
(* The sandboxes' directories: who empties them and who fills them *)

\* the consumers of the pool, as many as there are sandboxes: calls of
\* CaseBase.judge, of _compiler_build and of CustomJudgeCase.judge (taken
\* from line 172 on, its judge program built)
Holders == 1..PoolSize
HolderKinds == {"default", "compile", "custom"}

\* the handles a consumer asks get_sandbox for (case.py 48 and 172,
\* compile.py 185)
Need(kind) == IF kind = "custom" THEN 2 ELSE 1

\* what a consumer does first with a handle it was given. Package.install
\* and Compiler.prepare begin with sandbox.reset() (compile.py 69, 92);
\* prepare_user_sandbox and prepare_judge_sandbox reset the sandbox
\* themselves (case.py 175, 179) and then call install, which resets again.
FirstStep(kind) == IF kind = "custom" THEN "reset_first" ELSE "reset"

DirsStep(d) ==
    /\ dirs' = d
    /\ UNCHANGED <<pool_vars, task_vars, sub_vars, fin, fout, fpc, run, pipe,
                   pkg, bundle>>

\* the sandboxes a consumer holds
BoxesOf(h) == {b \in Boxes : dirs.owner[b] = h}

\* the pool is full and the directories of its fresh sandboxes are empty.
\* co holds the preparations under way, one coroutine per sandbox: whose it
\* is, the sandbox it works on and the step it is to take next. seen[h] is
\* what the directories of h's sandboxes held when its program was started.
InitSandbox ==
    /\ DaemonIdle /\ FunIdle
    /\ run = NoRun /\ pipe = NoPipe /\ pkg = NoPkg /\ bundle = NoBundle
    /\ \E kinds \in [Holders -> HolderKinds] :
          dirs = [pc |-> "pool", kind |-> kinds,
                  hpc |-> [h \in Holders |-> "idle"],
                  owner |-> [b \in Boxes |-> 0],
                  content |-> [b \in Boxes |-> {}],
                  co |-> {},
                  seen |-> [h \in Holders |-> {}]]

\* get_sandbox(n) hands n sandboxes of the pool to consumer h, which starts
\* to prepare them: inline for one sandbox, as two coroutines passed to
\* gather for the two of a custom-judge case (case.py 180-181)
GetSandbox(h) ==
    /\ dirs.hpc[h] = "idle"
    /\ \A c \in dirs.co : c.by # h
    /\ \E S \in SUBSET {b \in Boxes : dirs.owner[b] = 0} :
          /\ Cardinality(S) = Need(dirs.kind[h])
          /\ DirsStep([dirs EXCEPT
                 !.hpc[h] = "prepare",
                 !.owner = [b \in Boxes |-> IF b \in S THEN h ELSE @[b]],
                 !.co = @ \cup {[by |-> h, box |-> b,
                                 at |-> FirstStep(dirs.kind[h])] : b \in S}])

\* `await sandbox.reset()` resolves: in/ and out/ of the sandbox are empty.
\* The coroutine does not look at who holds the sandbox now.
SandboxReset(c) ==
    /\ c \in dirs.co /\ c.at \in {"reset_first", "reset"}
    /\ DirsStep([dirs EXCEPT
           !.content[c.box] = {},
           !.co = (@ \ {c})
                  \cup {[c EXCEPT !.at = IF c.at = "reset_first"
                                         THEN "reset" ELSE "place"]}])

\* the consumer's files go into the sandbox: the package is copied to out/
\* (compile.py 70-73) or the code is written to in/ (compile.py 93-112),
\* without an await after the reset
Place(c) ==
    /\ c \in dirs.co /\ c.at = "place"
    /\ DirsStep([dirs EXCEPT !.content[c.box] = @ \cup {c.by},
                             !.co = @ \ {c}])

\* a step of the preparation raises (the reset, copytree, the extraction of
\* an archive). The consumer that awaits it leaves through its finally
\* block and puts all its sandboxes back (case.py 112-113, 262-263,
\* compile.py 209-210); gather hands the first exception to the awaiting
\* consumer and lets the other coroutine run on (case.py 180-181). The
\* exception of a coroutine nobody awaits any more is dropped.
PrepareRaises(c) ==
    /\ c \in dirs.co
    /\ DirsStep([dirs EXCEPT
           !.co = @ \ {c},
           !.hpc[c.by] = IF @ = "prepare" THEN "idle" ELSE @,
           !.owner = [b \in Boxes |->
                         IF dirs.hpc[c.by] = "prepare" /\ @[b] = c.by
                         THEN 0 ELSE @[b]]])

\* the preparation of every sandbox of h is through and its program is
\* started: executable.execute (case.py 61-66, 191-202) or the compiler
\* (compile.py 195-196)
StartProgram(h) ==
    /\ dirs.hpc[h] = "prepare"
    /\ \A c \in dirs.co : c.by # h
    /\ DirsStep([dirs EXCEPT
           !.hpc[h] = "run",
           !.seen[h] = UNION {dirs.content[b] : b \in BoxesOf(h)}])

\* the run is over and the finally block puts the sandboxes back as they
\* are: put_sandbox is not preceded by a reset
PutSandbox(h) ==
    /\ dirs.hpc[h] = "run"
    /\ DirsStep([dirs EXCEPT
           !.hpc[h] = "idle",
           !.seen[h] = {},
           !.owner = [b \in Boxes |-> IF @[b] = h THEN 0 ELSE @[b]]])

NextSandbox ==
    \/ \E h \in Holders : GetSandbox(h) \/ StartProgram(h) \/ PutSandbox(h)
    \/ \E c \in dirs.co : SandboxReset(c) \/ Place(c) \/ PrepareRaises(c)

SpecSandbox == InitSandbox /\ [][NextSandbox]_vars

----------------------------------------------------------------------------
(* Vocabulary of the properties *)

Range(q) == {q[k] : k \in 1..Len(q)}
Count(q, x) == Cardinality({k \in 1..Len(q) : q[k] = x})

Ended == {"returned", "returned5", "raised", "cancelled", "built_ok", "built_none"}
Waiting == {"get", "jb_get", "get2"}
Live(t) == tkind[t] # "none" /\ tpc[t] \notin Ended
TasksOf(s) == {t \in Tasks : t[1] = s}

EndEvents(s) == {k \in 1..Len(events[s]) : events[s][k].key = "end"}
CaseEvents(s) == SelectSeq(events[s], LAMBDA e : e.kind = "case")
BuildSucceeded(s) == tpc[<<s, 0>>] = "built_ok" /\ spc[s] # "compiling"
AllDefault(s) == \A i \in 1..ncases[s] : tkind[<<s, i>>] = "default"

----------------------------------------------------------------------------
(* C1 *)

\* C1: a default run that raised nothing gets the verdict of the first rule
\* that matches, in the order memory >= limit (MEMORY_LIMIT_EXCEEDED), time >=
\* limit (TIME_LIMIT_EXCEEDED), non-zero exit status (RUNTIME_ERROR), output
\* mismatch (WRONG_ANSWER), otherwise ACCEPTED; the score is the case's score
\* exactly when the verdict is ACCEPTED and 0 otherwise.
C1_VerdictFirstMatch ==
    fpc = "done" =>
        LET m == fout.memory_usage_bytes
            u == fout.time_usage_ns
            mle == m >= CaseMemoryLimit(fin.i)
            tle == u >= CaseTimeLimit(fin.i)
            re == fin.execute_status # 0
            wa == ~fin.correct
        IN  /\ mle => fout.status = STATUS_MEMORY_LIMIT_EXCEEDED
            /\ ~mle /\ tle => fout.status = STATUS_TIME_LIMIT_EXCEEDED
            /\ ~mle /\ ~tle /\ re => fout.status = STATUS_RUNTIME_ERROR
            /\ ~mle /\ ~tle /\ ~re /\ wa => fout.status = STATUS_WRONG_ANSWER
            /\ ~mle /\ ~tle /\ ~re /\ ~wa => fout.status = STATUS_ACCEPTED
            /\ fout.status = STATUS_ACCEPTED <=> fout.score = CaseScore(fin.i)
            /\ fout.status # STATUS_ACCEPTED => fout.score = 0

\* a run exactly at its memory limit that also ran out of time, exited with a
\* signal and printed a wrong answer: the first rule decides
C1_Witness ==
    /\ fpc = "done"
    /\ fin.mem >= CaseMemoryLimit(fin.i)
    /\ fin.wall_fired /\ fin.execute_status = -9 /\ ~fin.correct
    /\ fout.status = STATUS_MEMORY_LIMIT_EXCEEDED /\ fout.score = 0

----------------------------------------------------------------------------
(* C2 *)

\* C2: every handle get_sandbox handed to a default run, a custom-judge run
\* or a compiler build is passed to put_sandbox exactly once on every way
\* out (return, exception, cancellation): a task has put back as many handles
\* as it got less the ones it still holds, and holds none once it has ended.
C2_ReleasedExactlyOnce ==
    \A t \in Tasks :
        /\ gets[t] = puts[t] + Len(holds[t])
        /\ tpc[t] \in Ended => holds[t] = <<>> /\ puts[t] = gets[t]
        /\ tpc[t] \in Waiting => holds[t] = <<>>

\* a default run cancelled while it held its sandbox, a custom-judge run that
\* raised while it held two, and a compiler build that returned
C2_Witness ==
    \E a, b, c \in Tasks :
        /\ tkind[a] = "default" /\ tpc[a] = "cancelled" /\ puts[a] = 1
        /\ tkind[b] = "custom" /\ tpc[b] = "raised" /\ puts[b] = 2
        /\ tkind[c] = "compile" /\ tpc[c] = "built_none" /\ puts[c] = 1

----------------------------------------------------------------------------
(* C3 *)

\* C3: an error inside a case never aborts the job: a default case whose judge
\* fails at any step, reading the expected answer for the snippet included,
\* still returns a result, so once JUDGING was sent a submission of default
\* cases is judging or done, never ended by an error.
C3_CaseErrorsNeverAbort ==
    \A s \in Subs :
        /\ \A t \in TasksOf(s) : tkind[t] = "default" => tpc[t] # "raised"
        /\ BuildSucceeded(s) /\ ncases[s] > 0 /\ AllDefault(s)
               => spc[s] \in {"judging", "done"}

----------------------------------------------------------------------------
(* C4 *)

RECURSIVE SumScore(_, _), SumTime(_, _)
SumScore(s, n) == IF n = 0 THEN 0 ELSE tres[<<s, n>>].score + SumScore(s, n - 1)
SumTime(s, n) ==
    IF n = 0 THEN 0 ELSE tres[<<s, n>>].time_usage_ns + SumTime(s, n - 1)
Greatest(S) == CHOOSE m \in S : \A x \in S : m >= x

\* C4: the end event of a submission that reaches DONE carries the greatest
\* case status (ACCEPTED being the least), the sum of the case scores, the
\* floor of the summed case times over 1000000 and the floor of the greatest
\* case memory over 1024.
C4_Aggregate ==
    \A s \in Subs :
        spc[s] = "done" =>
            LET n == ncases[s]
                e == events[s][Len(events[s])]
                results == {tres[<<s, i>>] : i \in 1..n}
            IN  /\ e.key = "end"
                /\ e.status = Greatest({STATUS_ACCEPTED}
                                        \cup {r.status : r \in results})
                /\ e.score = SumScore(s, n)
                /\ e.time_ms = SumTime(s, n) \div 1000000
                /\ e.memory_kb =
                      Greatest({0} \cup {r.memory_usage_bytes : r \in results})
                          \div 1024

\* two cases of 0.7 ms each, the first wrong and at 4 KiB, the second accepted
\* at 1.5 KiB: every case reports 0 ms and the end event 1 ms
C4_Witness ==
    \E s \in Subs :
        /\ spc[s] = "done" /\ ncases[s] = 2
        /\ tres[<<s, 1>>].status = STATUS_MEMORY_LIMIT_EXCEEDED
        /\ tres[<<s, 1>>].time_usage_ns = 700000
        /\ tres[<<s, 2>>].status = STATUS_ACCEPTED
        /\ events[s][Len(events[s])].time_ms = 1
        /\ events[s][Len(events[s])].memory_kb = 4
        /\ events[s][Len(events[s])].status = STATUS_MEMORY_LIMIT_EXCEEDED

----------------------------------------------------------------------------
(* C5 *)

\* C5: every judge task of a submission exists before the first one is
\* awaited, and the case events are sent in the order of the cases: the k-th
\* case event is the event of the k-th case, whatever order the tasks end in.
C5_EventsInCaseOrder ==
    \A s \in Subs :
        /\ spc[s] = "judging" =>
               \A i \in 1..ncases[s] : tkind[<<s, i>>] # "none"
        /\ \A k \in 1..Len(CaseEvents(s)) :
               /\ tpc[<<s, k>>] = "returned"
               /\ CaseEvents(s)[k] = EvCase(k - 1, tres[<<s, k>>], ncases[s])

\* both case tasks exist, the second one has ended with WRONG_ANSWER while the
\* first one still runs in its sandbox, and no case event was sent yet
C5_Witness ==
    \E s \in Subs :
        /\ spc[s] = "judging" /\ idx[s] = 0 /\ CaseEvents(s) = <<>>
        /\ tpc[<<s, 2>>] = "returned" /\ tpc[<<s, 1>>] = "exec"
        /\ tres[<<s, 2>>].status = STATUS_WRONG_ANSWER

----------------------------------------------------------------------------
(* C6 *)

\* C6: a submission whose build succeeded sends, before its end event, one
\* case event for each case that passed the category filter, each with a
\* status of the verdict set (stated for submissions of default cases).
C6_AllCasesReported ==
    \A s \in Subs :
        /\ BuildSucceeded(s) /\ EndEvents(s) # {} /\ AllDefault(s)
               => Len(CaseEvents(s)) = ncases[s]
        /\ \A k \in 1..Len(CaseEvents(s)) :
               CaseEvents(s)[k].status \in VerdictSet

----------------------------------------------------------------------------
(* C7 *)

\* C7: at every moment every sandbox handle is either idle in the pool, once,
\* or held by exactly one task; no two tasks hold the same handle.
C7_OneHolder ==
    \A b \in Boxes :
        Count(free, b) + Cardinality({t \in Tasks : b \in Range(holds[t])}) = 1

\* a compiler build of one submission and a case of another hold the two
\* sandboxes at the same time while a third task waits
C7_Witness ==
    \E a, b \in Tasks :
        /\ a[1] # b[1]
        /\ tkind[a] = "compile" /\ holds[a] # <<>>
        /\ tkind[b] = "default" /\ holds[b] # <<>>
        /\ free = <<>> /\ waitq # <<>>

----------------------------------------------------------------------------
(* C8 *)

\* the number of handles the get_sandbox call a task is suspended in asks for
Wanted(t) == IF tpc[t] = "get2" THEN 2 ELSE 1

\* C8: get_sandbox(n) is served atomically, so no waiter holds a part of what
\* it asked for, a custom-judge run holds two handles or none, and with two
\* or more sandboxes the runs are never all blocked waiting for the pool.
C8_NoPartialNoDeadlock ==
    /\ \A t \in Tasks :
           /\ tpc[t] \in Waiting => holds[t] = <<>>
           /\ tpc[t] \in {"prep2", "exec2"} => Len(holds[t]) = 2
    /\ (\E t \in Tasks : Live(t)) /\ (\A t \in Tasks : Live(t) => tpc[t] \in Waiting)
           => PoolReady(Head(waitq), Wanted(Head(waitq)))

\* a custom-judge run holds both sandboxes while a second custom-judge run
\* and a default run wait
C8_Witness ==
    \E a, b, c \in Tasks :
        /\ tkind[a] = "custom" /\ Len(holds[a]) = 2
        /\ tkind[b] = "custom" /\ tpc[b] = "get2"
        /\ tkind[c] = "default" /\ tpc[c] = "get"

----------------------------------------------------------------------------
(* C9 *)

\* a submission is active from the moment it is handled until its handler
\* and every task it created have ended
Active(s) ==
    \/ spc[s] \in {"prepare", "compiling", "judging"}
    \/ \E t \in TasksOf(s) : Live(t)

\* C9: once a submission has sent its aggregate end event its build and all
\* its cases have put their sandboxes back, and if no other submission is
\* active every sandbox is idle in the pool.
C9_PoolRestored ==
    \A s \in Subs :
        spc[s] = "done" =>
            /\ \A t \in TasksOf(s) : ~Live(t) /\ holds[t] = <<>> /\ puts[t] = gets[t]
            /\ (\A o \in Subs \ {s} : ~Active(o)) => Len(free) = PoolSize

\* a compiled submission with two cases is done, three handles were handed
\* out and put back, and the other submission was handled too
C9_Witness ==
    \E s \in Subs :
        /\ spc[s] = "done" /\ ncases[s] = 2
        /\ gets[<<s, 0>>] = 1 /\ gets[<<s, 1>>] = 1 /\ gets[<<s, 2>>] = 1
        /\ \A o \in Subs \ {s} : ~Active(o) /\ spc[o] = "done" /\ ncases[o] = 1
        /\ Len(free) = PoolSize

----------------------------------------------------------------------------
(* C10 *)

\* the events of submission s before its end event and the judge_text event
\* that announces a SYSTEM_ERROR end
MainLine(s) == SelectSeq(events[s], LAMBDA e : e.kind \notin {"end", "judge_text"})

\* C10: the events of a submission are COMPILING, the compiler message,
\* JUDGING with progress 0 and the case events, in this order, closed by one
\* end event: the aggregate after the last case, or COMPILE_ERROR or
\* SYSTEM_ERROR (announced by a judge_text event) from any earlier point. A
\* handler that ended without a transport error has sent exactly one end
\* event, and nothing follows an end event.
C10_LinearEvents ==
    \A s \in Subs :
        LET e == events[s]
            m == MainLine(s)
        IN  /\ Cardinality(EndEvents(s)) <= 1
            /\ EndEvents(s) # {} => EndEvents(s) = {Len(e)}
            /\ spc[s] \in {"done", "compile_error", "system_error", "rejected"}
                   <=> EndEvents(s) # {}
            /\ \A k \in 1..Len(m) :
                   /\ k = 1 => m[k] = EvCompiling
                   /\ k = 2 => m[k] = EvCompilerText
                   /\ k = 3 => m[k] = EvJudging
                   /\ k > 3 => m[k].kind = "case" /\ m[k].index = k - 3
            /\ \A k \in 1..Len(e) :
                   /\ e[k].kind = "judge_text" =>
                          /\ k = Len(e) - 1
                          /\ e[k + 1] = EvEndError(STATUS_SYSTEM_ERROR)
                   /\ e[k].kind # "judge_text" /\ e[k].kind # "end" => m[k] = e[k]
            /\ EndEvents(s) # {} =>
                   \/ e[Len(e)] = EvEndError(STATUS_SYSTEM_ERROR)
                   \/ e[Len(e)] = EvEndError(STATUS_COMPILE_ERROR) /\ Len(m) = 2
                   \/ /\ spc[s] = "done"
                      /\ Len(m) = 3 + ncases[s] /\ Len(e) = Len(m) + 1

----------------------------------------------------------------------------
(* C11 *)

\* C11: a submission whose build returned no package has sent COMPILING, the
\* compiler message and one end event with COMPILE_ERROR and zero score, time
\* and memory, in this order and nothing else (no JUDGING event); it has no
\* case task and no case of it was handed a sandbox.
C11_CompileErrorEnds ==
    \A s \in Subs :
        tpc[<<s, 0>>] = "built_none" /\ spc[s] # "compiling" =>
            /\ spc[s] = "compile_error"
            /\ events[s] = <<EvCompiling, EvCompilerText,
                             EvEndError(STATUS_COMPILE_ERROR)>>
            /\ events[s][3].score = 0 /\ events[s][3].time_ms = 0
            /\ events[s][3].memory_kb = 0
            /\ \A i \in 1..MaxCases :
                   tkind[<<s, i>>] = "none" /\ gets[<<s, i>>] = 0

\* one submission has ended with a compile error while a case of the other
\* one runs in a sandbox
C11_Witness ==
    \E s, o \in Subs :
        /\ spc[s] = "compile_error" /\ gets[<<s, 0>>] = 1
        /\ spc[o] = "judging" /\ holds[<<o, 1>>] # <<>>

----------------------------------------------------------------------------
(* C12 *)

\* C12: a compilation whose time usage reached its time limit or whose memory
\* usage reached its memory limit yields no package, whatever the status of
\* the compiler, so the handler that awaits it cannot go on to JUDGING.
C12_CompileOverLimitNoPackage ==
    \A s \in Subs :
        LET t == <<s, 0>> IN
        /\ tkind[t] = "compile" /\ tpc[t] \in {"built_ok", "built_none"}
        /\ \/ tres[t].time_usage_ns >= CompileTimeLimit
           \/ tres[t].memory_usage_bytes >= CompileMemoryLimit
        => /\ tpc[t] = "built_none"
           /\ spc[s] = "compiling"

----------------------------------------------------------------------------
(* C13, C14 *)

\* the tasks of case runs that ended with a result
WithResult == {t \in Tasks : tpc[t] \in {"returned", "returned5"}}

\* C13: every case result, of a default or a custom-judge run, carries a time
\* usage of at most the case's time limit or the status TIME_LIMIT_EXCEEDED.
C13_TimeWithinLimitOrTLE ==
    \A t \in WithResult :
        \/ tres[t].time_usage_ns <= CaseTimeLimit(t[2])
        \/ tres[t].status = STATUS_TIME_LIMIT_EXCEEDED

\* a default run that used up its time and its memory got
\* MEMORY_LIMIT_EXCEEDED, and a custom-judge run that used up its time got
\* the SYSTEM_ERROR of its judge
C13_Witness ==
    \E a, b \in WithResult :
        /\ tkind[a] = "default" /\ tkind[b] = "custom"
        /\ tres[a].status = STATUS_MEMORY_LIMIT_EXCEEDED
        /\ tres[a].time_usage_ns = CaseTimeLimit(a[2])
        /\ tres[b].status = STATUS_SYSTEM_ERROR
        /\ tres[b].time_usage_ns = CaseTimeLimit(b[2])

\* C14: every case result, of a default or a custom-judge run, carries a
\* memory usage of at most the case's memory limit or the status
\* MEMORY_LIMIT_EXCEEDED.
C14_MemoryWithinLimitOrMLE ==
    \A t \in WithResult :
        \/ tres[t].memory_usage_bytes <= CaseMemoryLimit(t[2])
        \/ tres[t].status = STATUS_MEMORY_LIMIT_EXCEEDED

\* a custom-judge run whose user program reached its memory limit got the
\* SYSTEM_ERROR of its judge, and a default run got the SYSTEM_ERROR of an
\* internal error
C14_Witness ==
    \E a, b \in WithResult :
        /\ tkind[a] = "custom" /\ tkind[b] = "default"
        /\ tres[a].status = STATUS_SYSTEM_ERROR
        /\ tres[a].memory_usage_bytes = CaseMemoryLimit(a[2])
        /\ tres[b] = DefaultExcept

----------------------------------------------------------------------------
(* C15, C16 *)

\* the judge program of the run at hand malfunctioned: non-zero exit, memory
\* at 256 MiB or time at 1e9 ns
JudgeMalfunction ==
    \/ fin.judge_status # 0
    \/ CustomJudgeUsage(fin.jcpu, fin.jmem)[2] >= DEFAULT_MEMORY_BYTES
    \/ CustomJudgeUsage(fin.jcpu, fin.jmem)[1] >= DEFAULT_TIME_NS

\* C15: the verdict of a custom-judge run is SYSTEM_ERROR when the judge
\* malfunctioned, also when the user program is over a limit; otherwise
\* MEMORY_LIMIT_EXCEEDED for user memory >= limit, else TIME_LIMIT_EXCEEDED
\* for user time >= limit, else RUNTIME_ERROR for a non-zero user exit, all
\* with score 0; otherwise the two integers of the judge's stdout.
C15_CustomPrecedence ==
    fpc # "ready" =>
        LET user == CustomUserUsage(fin.cpu, fin.wall_fired, fin.mem, fin.i)
            jm == JudgeMalfunction
            mle == user[2] >= CaseMemoryLimit(fin.i)
            tle == user[1] >= CaseTimeLimit(fin.i)
            re == fin.user_status # 0
            Is(st) == fpc = "done" /\ fout.status = st /\ fout.score = 0
        IN  /\ jm => Is(STATUS_SYSTEM_ERROR)
            /\ ~jm /\ mle => Is(STATUS_MEMORY_LIMIT_EXCEEDED)
            /\ ~jm /\ ~mle /\ tle => Is(STATUS_TIME_LIMIT_EXCEEDED)
            /\ ~jm /\ ~mle /\ ~tle /\ re => Is(STATUS_RUNTIME_ERROR)
            /\ ~jm /\ ~mle /\ ~tle /\ ~re /\ JudgeOutputParses(fin.tokens) =>
                   /\ fpc = "done"
                   /\ fout.status = IntToken(fin.tokens[1])
                   /\ fout.score = IntToken(fin.tokens[2])

\* the judge malfunctioned while the user program was over its memory limit
\* and its time limit and had exited with a signal
C15_Witness ==
    /\ fpc = "done" /\ JudgeMalfunction
    /\ fin.mem > CaseMemoryLimit(fin.i) /\ fin.wall_fired
    /\ fin.user_status = -9
    /\ fout.status = STATUS_SYSTEM_ERROR

\* no earlier rule decides the run at hand: the verdict is read from the
\* judge's stdout
ReachesParse ==
    LET user == CustomUserUsage(fin.cpu, fin.wall_fired, fin.mem, fin.i)
    IN  /\ ~JudgeMalfunction
        /\ user[2] < CaseMemoryLimit(fin.i)
        /\ user[1] < CaseTimeLimit(fin.i)
        /\ fin.user_status = 0

\* C16: when the verdict is read from the judge's stdout and that is not
\* exactly two integers (empty, one token, three tokens, a token that is no
\* number), judge returns a result with SYSTEM_ERROR and score 0 and does
\* not raise.
C16_UnparseableIsSystemError ==
    fpc # "ready" /\ ReachesParse /\ ~JudgeOutputParses(fin.tokens) =>
        /\ fpc = "done"
        /\ fout.status = STATUS_SYSTEM_ERROR
        /\ fout.score = 0

----------------------------------------------------------------------------
(* C17 *)

\* C17: a custom-judge case that has ended has yielded a complete case
\* result, and the submission that awaits it does not end with SYSTEM_ERROR
\* at that case: it is reported like any other case.
C17_CustomCaseReported ==
    \A s \in Subs : \A k \in 1..ncases[s] :
        tkind[<<s, k>>] = "custom" /\ ~Live(<<s, k>>) =>
            /\ tpc[<<s, k>>] = "returned"
            /\ idx[s] = k - 1 => spc[s] # "system_error"

----------------------------------------------------------------------------
(* C18 *)

\* C18: a submission in a language the registry does not know never starts a
\* build and acquires no sandbox, and once prepare() has looked the language
\* up it has sent a single end event with SYSTEM_ERROR and score 0 (after the
\* judge_text event that carries the error) and no COMPILING event.
C18_UnknownLanguage ==
    \A s \in Subs :
        lang[s] = "unknown" =>
            /\ \A t \in TasksOf(s) : tkind[t] = "none" /\ gets[t] = 0
            /\ spc[s] \in {"prepare", "client_error", "system_error"}
            /\ spc[s] = "system_error" =>
                   /\ events[s] = <<EvJudgeText, EvEndError(STATUS_SYSTEM_ERROR)>>
                   /\ events[s][2].score = 0
            /\ spc[s] # "system_error" => events[s] = <<>>

\* a submission in an unknown language has ended with SYSTEM_ERROR while the
\* build of the other submission holds a sandbox
C18_Witness ==
    \E s, o \in Subs :
        /\ lang[s] = "unknown" /\ spc[s] = "system_error"
        /\ lang[o] = "compiled" /\ holds[<<o, 0>>] # <<>>

----------------------------------------------------------------------------
(* C19 *)

\* the payload of event e is the text of an exception
HasJudgeText(e) == e.kind = "judge_text"

\* C19: a submission that ended with an error other than a compile error or
\* a transport error has sent, as its last event, an end event with
\* SYSTEM_ERROR that carries the message of the exception.
C19_EndCarriesMessage ==
    \A s \in Subs :
        spc[s] = "system_error" =>
            LET e == events[s][Len(events[s])]
            IN  /\ e.key = "end"
                /\ e.status = STATUS_SYSTEM_ERROR
                /\ HasJudgeText(e)

----------------------------------------------------------------------------
(* C20 *)

\* every task of submission s has ended and holds no sandbox
Settled(s) == \A t \in TasksOf(s) : ~Live(t) /\ holds[t] = <<>>

----------------------------------------------------------------------------
(* C21 *)

\* C21: the controller has never returned its usage pair while the execution
\* task of its run is still pending, on the normal path and after a
\* wall-clock kill; and whenever the runner has gone past the join of line
\* 79-80, the controller has returned and the exit status is known.
C21_ControllerAfterExecution ==
    /\ run.ctl = "returned" => run.execute = "done"
    /\ run.runner = "compare" => run.ctl = "returned" /\ run.execute = "done"

\* the wall-clock timer killed the program, the execution task resolved with
\* the signal status, and the runner holds the controller's pair
C21_Witness ==
    /\ run.runner = "compare"
    /\ run.ctl = "returned" /\ run.wall_fired
    /\ run.execute = "done" /\ run.status = -9

----------------------------------------------------------------------------
(* C22 *)

----------------------------------------------------------------------------
(* C23 *)

\* C23: a child that has called exec is in the resource group of its run, so
\* it is in the group before it can produce output; once a process is in the
\* group the accept side is closed; and no run ever has more than one
\* process moved into its group through the socket.
C23_AttachBeforeExec ==
    /\ run.child = "exec" => run.in_group
    /\ run.in_group => ~run.accept_open
    /\ run.attached <= 1

\* the program runs inside the group and its own connect to the socket was
\* refused
C23_Witness ==
    /\ run.child = "exec" /\ run.in_group
    /\ run.attached = 1 /\ run.refused = 1

----------------------------------------------------------------------------
(* C24 *)

\* C24: a request to the pool is served only when it is the oldest pending
\* one, so no later request is served while an earlier one is pending; and
\* from some point on no request is pending: every request of at most
\* PoolSize handles was served, or withdrawn by the cancellation of its
\* task, given that every holder goes on to its release.
C24_PoolFifo ==
    /\ [][\A t \in Tasks :
              gets'[t] > gets[t] => waitq # <<>> /\ Head(waitq) = t]_vars
    /\ <>[](waitq = <<>> /\ \A t \in Tasks : tpc[t] \notin Waiting)

\* a request for two handles is the oldest one and one handle is idle; the
\* request for one handle behind it has to wait
C24_Witness ==
    /\ Len(waitq) >= 2 /\ Len(free) = 1
    /\ tpc[waitq[1]] = "get2"
    /\ tpc[waitq[2]] = "get"

----------------------------------------------------------------------------
(* C25 *)

\* the positions, in the descriptor, of the cases whose category is in the
\* set the caller supplied
Selected(cases, judge_category) ==
    SelectSeq([k \in 1..Len(cases) |-> k],
              LAMBDA k : CaseCategory(cases[k]) \in judge_category)

\* the index attribute of a case object, 0 for an object without one
IndexOf(c) == IF "index" \in DOMAIN c THEN c.index ELSE 0

\* C25: the sequence yielded from a descriptor holds exactly the cases whose
\* category (pretest when absent or empty) is in the set the caller
\* supplied, in the order of the descriptor, and every yielded case, default
\* or custom-judge, carries as index its 1-based position in that sequence.
C25_FilteredAndIndexed ==
    fpc = "done" =>
        /\ [j \in 1..Len(fout) |-> fout[j].pos]
               = Selected(fin.cases, fin.judge_category)
        /\ \A j \in 1..Len(fout) : IndexOf(fout[j]) = j

----------------------------------------------------------------------------
(* C26 *)

\* C26: a submission whose bundle has no config.yaml, or has a selected case
\* with an unparseable time or memory field, creates no case task (no case
\* runs or acquires a sandbox), never sends more than one end event, and
\* when its handler has finished it has sent a single end event, with
\* SYSTEM_ERROR and score 0.
C26_FormatErrorEnds ==
    \A s \in Subs :
        bundle[s] \in {"noconfig", "badlimit"} =>
            /\ \A t \in TasksOf(s) : t[2] > 0 => tkind[t] = "none" /\ gets[t] = 0
            /\ Cardinality(EndEvents(s)) <= 1
            /\ \A k \in EndEvents(s) :
                   /\ events[s][k].status = STATUS_SYSTEM_ERROR
                   /\ events[s][k].score = 0
            /\ spc[s] \in {"system_error", "compile_error", "done"} =>
                   Cardinality(EndEvents(s)) = 1

----------------------------------------------------------------------------
(* C27 *)

\* the handler and every task of the submission have ended
PackageAllEnded ==
    /\ pkg.handler \in {"done", "system_error", "compile_error", "cancelled"}
    /\ pkg.build \in {"packaged", "no_package", "raised"}
    /\ \A i \in PkgCases : pkg.case[i] \in {"none", "returned", "raised"}

\* C27: the package directory is on disk while the package object is
\* referenced and is deleted when the last reference goes; no case task
\* installs from a directory that is not there, also not after the handler
\* stopped awaiting it; and once the submission and all its tasks have ended
\* no package directory is left.
C27_PackageLifetime ==
    /\ pkg.refs # {} => pkg.dir = "present"
    /\ pkg.build = "packaged" /\ pkg.refs = {} => pkg.dir = "deleted"
    /\ ~pkg.stale
    /\ PackageAllEnded => pkg.dir # "present"

----------------------------------------------------------------------------
(* C28 *)

\* the grammar ^([0-9]+(\.[0-9]*)?)(unit)?suffix?$ : s is d digits, then
\* nothing or a point and f - 1 digits, then u unit letters and x suffixes
InGrammar(s, units, suffix) ==
    \E d \in 1..Len(s) : \E f \in 0..Len(s) : \E u \in 0..1 : \E x \in 0..1 :
        /\ d + f + u + x = Len(s)
        /\ \A k \in 1..d : IsDigit(s[k])
        /\ f > 0 => s[d + 1] = "." /\ \A k \in (d + 2)..(d + f) : IsDigit(s[k])
        /\ u = 1 => s[d + f + 1] \in units
        /\ x = 1 => s[Len(s)] = suffix

\* the integer part of the decimal number times the multiplier
IntegerPart(whole, frac, unit) ==
    Trim(DivSmall(MulBits(BitsOf(NatOf(whole \o frac)), BitsOf(unit)),
                  Pow10(Len(frac))).q)

\* C28: parse_time_ns and parse_memory_bytes return a value exactly for the
\* strings of their grammar and raise a format error for every other one;
\* the value is the integer part of the decimal number times the multiplier
\* of the unit; "1.5ms" gives 1500000 and "2g" gives 2147483648 (2^31).
C28_ParseExact ==
    fpc = "done" /\ "fn" \in DOMAIN fin =>
        LET time == fin.fn = "time"
            units == IF time THEN {"m", "u", "n"} ELSE {"k", "m", "g"}
            suffix == IF time THEN "s" ELSE "b"
            match == FullMatch(fin.str, units, suffix)
            table == IF time THEN TIME_UNITS ELSE MEMORY_UNITS
        IN  /\ fout.raised <=> ~InGrammar(fin.str, units, suffix)
            /\ ~fout.raised =>
                   fout.value = IntegerPart(match.int, match.frac,
                                            table[match.unit])
            /\ time /\ fin.str = <<"1", ".", "5", "m", "s">> =>
                   ~fout.raised /\ fout.value = BitsOf(1500000)
            /\ ~time /\ fin.str = <<"2", "g">> =>
                   ~fout.raised /\ fout.value = ShiftL(<<1>>, 31)

----------------------------------------------------------------------------
(* C29 *)

\* C29: the bytes the reader holds are the first bytes written, at most cap
\* of them, whatever the sizes of the chunks; the loop is left as soon as
\* end of file was seen or cap bytes were taken, and its end of the pipe is
\* closed when it returns; a reader that returns after the writer closed
\* with fewer than cap bytes written returns exactly the bytes written; and
\* a writer that is still writing when the reader has returned can go on
\* (its write fails, or it closes).
C29_BoundedReader ==
    pipe.pc # "none" =>
        /\ Len(pipe.chunks) <= pipe.cap
        /\ pipe.chunks = [j \in 1..Len(pipe.chunks) |-> j]
        /\ Len(pipe.chunks) <= pipe.written
        /\ pipe.size = pipe.cap - Len(pipe.chunks)
        /\ pipe.eof \/ Len(pipe.chunks) = pipe.cap => pipe.pc = "returned"
        /\ pipe.pc = "returned" <=> ~pipe.open
        /\ pipe.pc = "returned" /\ pipe.writer = "closed"
           /\ pipe.written < pipe.cap =>
               pipe.chunks = [j \in 1..pipe.written |-> j]
        /\ pipe.pc = "returned" /\ pipe.writer = "writing" =>
               ENABLED (WriterBrokenPipe \/ WriterClose)

\* the reader returned with cap bytes and left a byte in the pipe, and the
\* writer, which had one more to write, found the pipe broken
C29_Witness ==
    /\ pipe.pc = "returned" /\ pipe.cap = 2 /\ Len(pipe.chunks) = 2
    /\ pipe.writer = "broken" /\ pipe.written = 3 /\ pipe.total = 4
    /\ pipe.buffer = <<3>>

----------------------------------------------------------------------------
(* C30 *)

\* C30: a started default run does not stop before it has returned a case
\* result and released its sandbox: as long as it has not, the runner, the
\* stdin writer, an output reader, the controller or the judged program can
\* take a step, whatever the program does.
C30_RunReturns ==
    (run.runner = "returned" /\ run.released) \/ ENABLED NextRun

----------------------------------------------------------------------------
(* C31 *)

----------------------------------------------------------------------------
(* C32 *)

\* C32: a submission whose descriptor has a selected case with an
\* unparseable time or memory field is stopped while the problem config is
\* loaded: it never sends the COMPILING event and its build is never
\* started.
C32_ValidatedInPrepare ==
    \A s \in Subs :
        bundle[s] = "badlimit" =>
            /\ \A k \in 1..Len(events[s]) : events[s][k] # EvCompiling
            /\ tkind[<<s, 0>>] = "none" /\ gets[<<s, 0>>] = 0

----------------------------------------------------------------------------
(* C33 *)

\* the build of s gave a package and judge() listed no case
JudgedNothing(s) ==
    /\ tpc[<<s, 0>>] = "built_ok" /\ spc[s] \in {"judging", "done"}
    /\ ncases[s] = 0

\* C33: a submission whose build succeeds and whose category filter selects
\* no case has finished without error: its last two events are JUDGING with
\* progress 0 and, directly after it, the only end event, with ACCEPTED,
\* score 0, time 0 and memory 0; it has sent no case event and no error
\* text, and it has created no case task and acquired no sandbox for one.
C33_NoCasesAccepted ==
    \A s \in Subs :
        JudgedNothing(s) =>
            LET n == Len(events[s]) IN
            /\ spc[s] = "done"
            /\ n >= 2
            /\ events[s][n - 1]
                   = Event("next", "status", STATUS_JUDGING, 0, 0, 0, 0, 0)
            /\ events[s][n]
                   = Event("end", "end", STATUS_ACCEPTED, 0, 0, 0, 0, -1)
            /\ EndEvents(s) = {n}
            /\ CaseEvents(s) = <<>>
            /\ \A k \in 1..n : events[s][k].kind # "judge_text"
            /\ \A t \in TasksOf(s) :
                   t[2] > 0 => tkind[t] = "none" /\ gets[t] = 0

\* a submission has ended that way while another one, with cases, is judging
C33_Witness ==
    \E s \in Subs : \E s2 \in Subs \ {s} :
        /\ JudgedNothing(s) /\ spc[s] = "done"
        /\ spc[s2] = "judging" /\ ncases[s2] > 0

====
